---- MODULE Spec2Model ----
(***************************************************************************)
(* The news aggregation pipeline: the RSS fetcher (lib/rss.ts), the Reddit *)
(* fetcher (lib/reddit.ts), their per-source caches, the identity function *)
(* (lib/news-types.ts) and the aggregate endpoint (app/api/news/route.ts). *)
(*                                                                         *)
(* Conventions.                                                            *)
(*  - A JavaScript string is a TLA+ string; SubSeq(s, i, i) is its i-th    *)
(*    UTF-16 code unit.  The one non-ASCII character the code writes, the  *)
(*    ellipsis U+2026, is written Ellipsis: a string of length 1.          *)
(*  - A JavaScript object is a record; a property that is absent           *)
(*    (undefined) is absent from the record's DOMAIN.                      *)
(*  - A Date is its time value, an integer number of milliseconds; the     *)
(*    ISO-8601 string toISOString() writes and the time new Date(string)   *)
(*    reads back denote the same millisecond, so publishedAt is kept as    *)
(*    that integer.  Time 0 is the start of the process.                   *)
(*  - null is Null; a thrown exception is Threw.                           *)
(***************************************************************************)
EXTENDS Integers, Sequences, FiniteSets, TLC

Null == [null |-> TRUE]
Threw == [threw |-> TRUE]

Has(obj, field) == field \in DOMAIN obj

(***************************************************************************)
(* String helpers of the JavaScript runtime used by the fetchers.          *)
(***************************************************************************)
CharAt(s, i) == SubSeq(s, i, i)

\* the stand-in for the one-character string "…"
Ellipsis == "~"

\* String.prototype.slice(0, n)
Slice0(s, n) == SubSeq(s, 1, IF n < Len(s) THEN n ELSE Len(s))

\* String.prototype.startsWith(prefix)
StartsWith(s, prefix) == Len(s) >= Len(prefix) /\ SubSeq(s, 1, Len(prefix)) = prefix

IsSpace(c) == c \in {" ", "\t", "\n", "\r", "\f"}
NotSpace(c) == ~IsSpace(c)

\* the first (last) index from `from` on whose character satisfies P, or 0
FirstIndex(s, from, P(_)) ==
    IF \E i \in from..Len(s) : P(CharAt(s, i))
    THEN CHOOSE i \in from..Len(s) :
             P(CharAt(s, i)) /\ \A j \in from..(i - 1) : ~P(CharAt(s, j))
    ELSE 0
LastIndex(s, P(_)) ==
    IF \E i \in 1..Len(s) : P(CharAt(s, i))
    THEN CHOOSE i \in 1..Len(s) :
             P(CharAt(s, i)) /\ \A j \in (i + 1)..Len(s) : ~P(CharAt(s, j))
    ELSE 0

\* String.prototype.trim()
Trim(s) ==
    LET first == FirstIndex(s, 1, NotSpace)
    IN IF first = 0 THEN "" ELSE SubSeq(s, first, LastIndex(s, NotSpace))

\* s.replace(/<[^>]*>/g, ""): each "<" that has a ">" after it is removed
\* together with everything up to the first such ">"
RECURSIVE StripTags(_)
StripTags(s) ==
    LET i == FirstIndex(s, 1, LAMBDA c : c = "<")
        j == IF i = 0 THEN 0 ELSE FirstIndex(s, i + 1, LAMBDA c : c = ">")
    IN IF j = 0 THEN s
       ELSE SubSeq(s, 1, i - 1) \o StripTags(SubSeq(s, j + 1, Len(s)))

\* s.replace(/\n{2,}/g, " "): each maximal run of two or more line feeds
\* becomes one space
RECURSIVE CollapseNewlines(_)
CollapseNewlines(s) ==
    LET starts == {i \in 1..(Len(s) - 1) : CharAt(s, i) = "\n" /\ CharAt(s, i + 1) = "\n"}
    IN IF starts = {} THEN s
       ELSE LET i == CHOOSE k \in starts : \A m \in starts : k <= m
                j == FirstIndex(s, i + 2, LAMBDA c : c # "\n")
            IN SubSeq(s, 1, i - 1) \o " "
                 \o (IF j = 0 THEN "" ELSE CollapseNewlines(SubSeq(s, j, Len(s))))

\* summary.length > 500 ? summary.slice(0, 497) + "…" : summary
Clip(summary) ==
    IF Len(summary) > 500 THEN Slice0(summary, 497) \o Ellipsis ELSE summary

(***************************************************************************)
(* crypto.createHash("sha256"): SHA-256 (FIPS 180-4) over the UTF-8 bytes  *)
(* of the link.  A 32-bit word is a pair <<high 16 bits, low 16 bits>>.    *)
(***************************************************************************)
Pow2(n) == CASE n = 0 -> 1 [] n = 1 -> 2 [] n = 2 -> 4 [] n = 3 -> 8
             [] n = 4 -> 16 [] n = 5 -> 32 [] n = 6 -> 64 [] n = 7 -> 128
             [] n = 8 -> 256 [] n = 9 -> 512 [] n = 10 -> 1024 [] n = 11 -> 2048
             [] n = 12 -> 4096 [] n = 13 -> 8192 [] n = 14 -> 16384
             [] n = 15 -> 32768 [] n = 16 -> 65536

RECURSIVE XorN(_, _, _)
XorN(a, b, n) ==
    IF n = 0 THEN 0 ELSE ((a + b) % 2) + 2 * XorN(a \div 2, b \div 2, n - 1)

RECURSIVE AndN(_, _, _)
AndN(a, b, n) ==
    IF n = 0 THEN 0 ELSE ((a % 2) * (b % 2)) + 2 * AndN(a \div 2, b \div 2, n - 1)

Xor32(a, b) == <<XorN(a[1], b[1], 16), XorN(a[2], b[2], 16)>>
And32(a, b) == <<AndN(a[1], b[1], 16), AndN(a[2], b[2], 16)>>
Not32(a) == <<65535 - a[1], 65535 - a[2]>>
Add32(a, b) ==
    LET lo == a[2] + b[2]
        hi == a[1] + b[1] + (lo \div 65536)
    IN <<hi % 65536, lo % 65536>>

\* rotate right by n bits, 0 < n < 32
RotR(a, n) ==
    LET w == IF n >= 16 THEN <<a[2], a[1]>> ELSE a
        k == n % 16
    IN IF k = 0 THEN w
       ELSE <<(w[1] \div Pow2(k)) + (w[2] % Pow2(k)) * Pow2(16 - k),
              (w[2] \div Pow2(k)) + (w[1] % Pow2(k)) * Pow2(16 - k)>>

\* shift right by n bits, 0 < n < 32
ShR(a, n) ==
    IF n >= 16 THEN <<0, a[1] \div Pow2(n - 16)>>
    ELSE <<a[1] \div Pow2(n), (a[2] \div Pow2(n)) + (a[1] % Pow2(n)) * Pow2(16 - n)>>

K256 == <<
     <<17034, 12184>>, <<28983, 17553>>, <<46528, 64463>>, <<59829, 56229>>,
     <<14678, 49755>>, <<23025, 4593>>, <<37439, 33444>>, <<43804, 24277>>,
     <<55303, 43672>>, <<4739, 23297>>, <<9265, 34238>>, <<21772, 32195>>,
     <<29374, 23924>>, <<32990, 45566>>, <<39900, 1703>>, <<49563, 61812>>,
     <<58523, 27073>>, <<61374, 18310>>, <<4033, 40390>>, <<9228, 41420>>,
     <<11753, 11375>>, <<19060, 33962>>, <<23728, 43484>>, <<30457, 35034>>,
     <<38974, 20818>>, <<43057, 50797>>, <<45059, 10184>>, <<48985, 32711>>,
     <<50912, 3059>>, <<54695, 37191>>, <<1738, 25425>>, <<5161, 10599>>,
     <<10167, 2693>>, <<11803, 8504>>, <<19756, 28156>>, <<21304, 3347>>,
     <<25866, 29524>>, <<30314, 2747>>, <<33218, 51502>>, <<37490, 11397>>,
     <<41663, 59553>>, <<43034, 26187>>, <<49739, 35696>>, <<51052, 20899>>,
     <<53650, 59417>>, <<54937, 1572>>, <<62478, 13701>>, <<4202, 41072>>,
     <<6564, 49430>>, <<7735, 27656>>, <<10056, 30540>>, <<13488, 48309>>,
     <<14620, 3251>>, <<20184, 43594>>, <<23452, 51791>>, <<26670, 28659>>,
     <<29839, 33518>>, <<30885, 25455>>, <<33992, 30740>>, <<36039, 520>>,
     <<37054, 65530>>, <<42064, 27883>>, <<48889, 41975>>, <<50801, 30962>> >>

H256 == << <<27145, 58983>>, <<47975, 44677>>, <<15470, 62322>>, <<42319, 62778>>,
           <<20750, 21119>>, <<39685, 26764>>, <<8067, 55723>>, <<23520, 52505>> >>

\* the printable ASCII characters in code order: 32 to 95, and 97 to 126;
\* CharCode knows the tab, the line feed and the carriage return besides
\* (the grave accent, 96, cannot be written in a string of this language)
AsciiLow == " !\"#$%&'()*+,-./0123456789:;<=>?@ABCDEFGHIJKLMNOPQRSTUVWXYZ[\\]^_"
AsciiHigh == "abcdefghijklmnopqrstuvwxyz{|}~"

CharCode(c) ==
    IF c = "\t" THEN 9
    ELSE IF c = "\n" THEN 10
    ELSE IF c = "\r" THEN 13
    ELSE IF \E i \in 1..Len(AsciiLow) : CharAt(AsciiLow, i) = c
    THEN 31 + CHOOSE i \in 1..Len(AsciiLow) : CharAt(AsciiLow, i) = c
    ELSE 96 + CHOOSE i \in 1..Len(AsciiHigh) : CharAt(AsciiHigh, i) = c

\* update(link): the UTF-8 bytes of a string of ASCII characters
Utf8(s) == [i \in 1..Len(s) |-> CharCode(CharAt(s, i))]

\* the message, the byte 0x80, zeros, and the bit length on 8 bytes, filling
\* whole 64-byte blocks
Pad(bytes) ==
    LET n == Len(bytes)
        total == 64 * ((n + 9 + 63) \div 64)
    IN [i \in 1..total |->
          IF i <= n THEN bytes[i]
          ELSE IF i = n + 1 THEN 128
          ELSE IF i = total - 2 THEN (8 * n) \div 65536
          ELSE IF i = total - 1 THEN ((8 * n) \div 256) % 256
          ELSE IF i = total THEN (8 * n) % 256
          ELSE 0]

\* the 16 big-endian words of block number b (from 0)
BlockWords(padded, b) ==
    [i \in 1..16 |->
        <<padded[64 * b + 4 * i - 3] * 256 + padded[64 * b + 4 * i - 2],
          padded[64 * b + 4 * i - 1] * 256 + padded[64 * b + 4 * i]>>]

RECURSIVE Schedule(_)
Schedule(w) ==
    IF Len(w) = 64 THEN w
    ELSE LET n == Len(w) + 1
             s0 == Xor32(Xor32(RotR(w[n - 15], 7), RotR(w[n - 15], 18)), ShR(w[n - 15], 3))
             s1 == Xor32(Xor32(RotR(w[n - 2], 17), RotR(w[n - 2], 19)), ShR(w[n - 2], 10))
         IN Schedule(Append(w, Add32(Add32(w[n - 16], s0), Add32(w[n - 7], s1))))

Round(v, wi, ki) ==
    LET a == v[1] b == v[2] c == v[3] d == v[4]
        e == v[5] f == v[6] g == v[7] h == v[8]
        S1 == Xor32(Xor32(RotR(e, 6), RotR(e, 11)), RotR(e, 25))
        ch == Xor32(And32(e, f), And32(Not32(e), g))
        t1 == Add32(Add32(Add32(h, S1), Add32(ch, ki)), wi)
        S0 == Xor32(Xor32(RotR(a, 2), RotR(a, 13)), RotR(a, 22))
        mj == Xor32(Xor32(And32(a, b), And32(a, c)), And32(b, c))
        t2 == Add32(S0, mj)
    IN <<Add32(t1, t2), a, b, c, Add32(d, t1), e, f, g>>

RECURSIVE Rounds(_, _)
Rounds(st, w) ==
    IF st.i > 64 THEN st.v
    ELSE Rounds([v |-> Round(st.v, w[st.i], K256[st.i]), i |-> st.i + 1], w)

Compress(h, block) ==
    LET v == Rounds([v |-> h, i |-> 1], Schedule(block))
    IN [i \in 1..8 |-> Add32(h[i], v[i])]

RECURSIVE Blocks(_, _)
Blocks(st, padded) ==
    IF 64 * st.b >= Len(padded) THEN st.h
    ELSE Blocks([h |-> Compress(st.h, BlockWords(padded, st.b)), b |-> st.b + 1], padded)

Sha256(bytes) == Blocks([h |-> H256, b |-> 0], Pad(bytes))

HexDigit(n) == CharAt("0123456789abcdef", n + 1)
Hex16(n) == HexDigit(n \div 4096) \o HexDigit((n \div 256) % 16)
            \o HexDigit((n \div 16) % 16) \o HexDigit(n % 16)

RECURSIVE HexWords(_, _)
HexWords(h, i) ==
    IF i > Len(h) THEN "" ELSE Hex16(h[i][1]) \o Hex16(h[i][2]) \o HexWords(h, i + 1)

\* createHash("sha256").update(link).digest("hex"): 64 hexadecimal digits
Sha256Hex(link) == HexWords(Sha256(Utf8(link)), 1)

(***************************************************************************)
(* Promises.  A settled promise is fulfilled with a value or rejected.     *)
(***************************************************************************)
Pending == [state |-> "pending"]
Fulfilled(v) == [state |-> "fulfilled", value |-> v]
Rejected == [state |-> "rejected"]

\* PromiseAll gone wrong: settled as soon as one of the promises is, the
\* promises still pending counted as empty results
PromiseAll_FirstSettled(ps) ==
    IF \E i \in 1..Len(ps) : ps[i].state = "rejected" THEN Rejected
    ELSE IF \E i \in 1..Len(ps) : ps[i].state = "fulfilled"
         THEN Fulfilled([i \in 1..Len(ps) |->
                            IF ps[i].state = "fulfilled" THEN ps[i].value ELSE <<>>])
         ELSE Pending

\* Promise.all over a sequence of promises: rejected as soon as one of them
\* is (whatever the others are doing), fulfilled with the values, in the
\* order of the promises, once all of them are, and pending until then
PromiseAll(ps) ==
    IF \E i \in 1..Len(ps) : ps[i].state = "rejected" THEN Rejected
    ELSE IF \A i \in 1..Len(ps) : ps[i].state = "fulfilled"
         THEN Fulfilled([i \in 1..Len(ps) |-> ps[i].value])
         ELSE Pending

\* Array.prototype.flat() of an array of arrays
RECURSIVE Flat(_)
Flat(arrays) == IF arrays = <<>> THEN <<>> ELSE Head(arrays) \o Flat(Tail(arrays))

(***************************************************************************)
(* The upstreams.  What one fetch of a feed or of a community listing      *)
(* meets is drawn from these menus.                                        *)
(***************************************************************************)
\* The configuration constants RSS_FEED_URLS (five feeds) and SUBREDDITS (six
\* communities) are read from the variable `deploy`: the model runs a wide
\* deployment (the first two feeds and the first two communities, one
\* request at a time) and a narrow one (the first feed and the first
\* community, two requests in flight at once).
Deployments ==
    {[feeds |-> <<"https://rss.nytimes.com/services/xml/rss/nyt/HomePage.xml",
                  "https://feeds.bbci.co.uk/news/rss.xml">>,
      subs |-> <<"worldnews", "news">>,
      slots |-> 1],
     [feeds |-> <<"https://rss.nytimes.com/services/xml/rss/nyt/HomePage.xml">>,
      subs |-> <<"worldnews">>,
      slots |-> 2]}

POSTS_PER_SUB == 25

CACHE_TTL_MS == 5 * 60 * 1000

\* a date string that parses to the time ms, and one that does not parse
IsoDate(ms) == [ms |-> ms]
BadDate == [invalid |-> TRUE]

LinkA == "https://ex.org/a"
LinkB == "https://ex.org/b"
LinkC == "https://ex.org/c"
LinkD == "https://ex.org/d"

\* what parser.parseURL(url) ends with for feed number f: an error (the
\* request fails, times out after 10 s, answers a non-200 status or a body
\* that is no feed), or a parsed feed
FeedFailures == {"network", "timeout", "status", "parse"}
FeedDocs(f) ==
    IF f % 2 = 1
    THEN {[title |-> " NYT ", link |-> "https://www.nytimes.com/",
           items |-> <<[link |-> LinkA, title |-> "A (nyt)", isoDate |-> IsoDate(3),
                        contentSnippet |-> "alpha"],
                       [title |-> "no link"],
                       [link |-> " " \o LinkB \o "\n", isoDate |-> IsoDate(5),
                        content |-> "<p>beta</p>"]>>]}
    ELSE {[link |-> "https://www.bbc.co.uk/news",
           items |-> <<[link |-> LinkC, title |-> "C (bbc)", isoDate |-> IsoDate(3)],
                       [link |-> LinkA, title |-> "A (bbc)", isoDate |-> IsoDate(7)],
                       [link |-> "  ", title |-> "blank link"]>>],
          [title |-> "BBC",
           items |-> <<[link |-> LinkB, title |-> "B (bbc)"]>>]}
FeedOutcomes(f) ==
    {[kind |-> "error", why |-> w] : w \in FeedFailures}
      \cup {[kind |-> "feed", feed |-> d] : d \in FeedDocs(f)}

\* what https.get ends with for one request of a listing: the request
\* errors, the 10 s timer destroys it, or a response arrives
Post(fields) == [data |-> fields]
Listing(posts) == [data |-> [children |-> posts]]
SubListings(n) ==
    IF n % 2 = 1
    THEN {Listing(<<Post([title |-> "A (reddit)", url |-> LinkA, is_self |-> FALSE,
                          stickied |-> FALSE, created_utc |-> 0, subreddit |-> "worldnews",
                          selftext |-> ""]),
                     Post([title |-> "pinned", url |-> LinkC, is_self |-> FALSE,
                          stickied |-> TRUE, created_utc |-> 9, subreddit |-> "worldnews"]),
                     Post([title |-> " D (self) ", permalink |-> "/r/worldnews/d",
                          url |-> "https://www.reddit.com/r/worldnews/d", is_self |-> TRUE,
                          stickied |-> FALSE, created_utc |-> 300,
                          subreddit |-> "worldnews", selftext |-> "one\n\n\ntwo "])>>)}
    ELSE {Listing(<<Post([title |-> "D (news)", url |-> LinkD, is_self |-> FALSE,
                          stickied |-> FALSE, created_utc |-> 0, subreddit |-> "news"]),
                     Post([title |-> "  ", url |-> LinkB, is_self |-> FALSE,
                          stickied |-> FALSE, created_utc |-> 1, subreddit |-> "news"]),
                     Post([title |-> "A (news)", url |-> LinkA, is_self |-> FALSE,
                          stickied |-> FALSE, created_utc |-> 1, subreddit |-> "news"]),
                     Post([title |-> "no url", is_self |-> FALSE,
                          stickied |-> FALSE, created_utc |-> 2, subreddit |-> "news"])>>)}
Response(status, body) == [event |-> "response", statusCode |-> status, body |-> body]
Redirect(status, location, next) ==
    [event |-> "response", statusCode |-> status, location |-> location, next |-> next]
SubOutcomes(n) ==
    {[event |-> "error"], [event |-> "timeout"],
     Response(503, [text |-> "busy"]), Response(200, [text |-> "<html>"])}
      \cup {Response(200, [json |-> l]) : l \in SubListings(n)}
      \cup {Redirect(301, "https://old.reddit.com/", Response(200, [json |-> l])) :
               l \in SubListings(n)}

(***************************************************************************)
(* lib/news-types.ts                                                       *)
(***************************************************************************)
\* RssLink gone wrong: the link is not trimmed
RssLink_NoTrim(item) == IF Has(item, "link") THEN item.link ELSE ""

\* item.link?.trim(), with undefined and "" (both falsy) written ""
RssLink(item) == IF Has(item, "link") THEN Trim(item.link) ELSE ""

\* RedditLink gone wrong: a link post without url gets the permalink
RedditLink_PermalinkForAll(data) ==
    IF (Has(data, "is_self") /\ data.is_self) \/ ~Has(data, "url") \/ data.url = ""
    THEN "https://www.reddit.com"
           \o (IF Has(data, "permalink") THEN data.permalink ELSE "undefined")
    ELSE data.url

\* data.is_self ? `https://www.reddit.com${data.permalink}` : data.url,
\* with undefined and "" (both falsy) written ""
RedditLink(data) ==
    IF Has(data, "is_self") /\ data.is_self
    THEN "https://www.reddit.com"
           \o (IF Has(data, "permalink") THEN data.permalink ELSE "undefined")
    ELSE IF Has(data, "url") THEN data.url ELSE ""

\* the links the upstream menus can put into an item
MenuLinks ==
    UNION {UNION {{RssLink(d.items[i]) : i \in 1..Len(d.items)} : d \in FeedDocs(f)} :
             f \in 1..2}
      \cup UNION {UNION {{RedditLink(l.data.children[i].data) :
                            i \in 1..Len(l.data.children)} : l \in SubListings(n)} :
                    n \in 1..2}

\* the links makeId is applied to on its own
ProbeLinks ==
    MenuLinks \cup {"", "https://ex.org/e", "https://ex.org/f", " https://ex.org/a"}

\* the digests of these links, computed once
DigestMemo == [l \in MenuLinks \cup ProbeLinks |-> Sha256Hex(l)]

Digest(link) == IF link \in DOMAIN DigestMemo THEN DigestMemo[link] ELSE Sha256Hex(link)

\* makeId gone wrong: update(link) is missing, the digest is that of nothing
makeId_NoUpdate(link) == Slice0(Digest(""), 16)

\* makeId gone wrong: slice(0, 1), the first digit of the digest only
makeId_OneDigit(link) == Slice0(Digest(link), 1)

\* crypto.createHash("sha256").update(link).digest("hex").slice(0, 16)
makeId(link) == Slice0(Digest(link), 16)

NewsItem(id, title, link, source, publishedAt, summary) ==
    [id |-> id, title |-> title, link |-> link, source |-> source,
     publishedAt |-> publishedAt, summary |-> summary]

(***************************************************************************)
(* lib/rss.ts                                                              *)
(***************************************************************************)
\* new URL(s).hostname for the absolute http(s) URLs of the menus; new URL
\* throws a TypeError on a string that is no URL, such as ""
UrlHostname(s) ==
    LET rest == IF StartsWith(s, "https://") THEN SubSeq(s, 9, Len(s))
                ELSE IF StartsWith(s, "http://") THEN SubSeq(s, 8, Len(s))
                ELSE ""
        end == FirstIndex(rest, 1, LAMBDA c : c \in {"/", "?", "#"})
        host == IF end = 0 THEN rest ELSE SubSeq(rest, 1, end - 1)
    IN IF host = "" THEN Threw ELSE [hostname |-> host]

\* feed.title?.trim() || new URL(feed.link ?? "").hostname
extractSource(feed) ==
    IF Has(feed, "title") /\ Trim(feed.title) # "" THEN [source |-> Trim(feed.title)]
    ELSE LET url == UrlHostname(IF Has(feed, "link") THEN feed.link ELSE "")
         IN IF url = Threw THEN Threw ELSE [source |-> url.hostname]

\* ToISOString gone wrong: the milliseconds are taken for seconds
ToISOString_Seconds(date) ==
    IF Has(date, "ms") THEN [iso |-> date.ms \div 1000] ELSE Threw

\* new Date(isoDate).toISOString(): a RangeError on an invalid date
ToISOString(date) == IF Has(date, "ms") THEN [iso |-> date.ms] ELSE Threw

\* normaliseItem gone wrong: no placeholder for a title that is missing
normaliseItem_NoPlaceholder(item, source, now) ==
    LET link == RssLink(item)
        title == IF Has(item, "title") THEN Trim(item.title) ELSE ""
        summary == IF Has(item, "contentSnippet") /\ Trim(item.contentSnippet) # ""
                   THEN Trim(item.contentSnippet)
                   ELSE IF Has(item, "content") /\ Trim(StripTags(item.content)) # ""
                        THEN Trim(StripTags(item.content))
                        ELSE ""
        publishedAt == IF Has(item, "isoDate") THEN ToISOString(item.isoDate)
                       ELSE [iso |-> now]
    IN IF link = "" THEN Null
       ELSE IF publishedAt = Threw THEN Threw
       ELSE NewsItem(makeId(link), title, link, source, publishedAt.iso, Clip(summary))

normaliseItem(item, source, now) ==
    LET link == RssLink(item)
        title == IF Has(item, "title") /\ Trim(item.title) # ""
                 THEN Trim(item.title) ELSE "(no title)"
        summary == IF Has(item, "contentSnippet") /\ Trim(item.contentSnippet) # ""
                   THEN Trim(item.contentSnippet)
                   ELSE IF Has(item, "content") /\ Trim(StripTags(item.content)) # ""
                        THEN Trim(StripTags(item.content))
                        ELSE ""
        publishedAt == IF Has(item, "isoDate") THEN ToISOString(item.isoDate)
                       ELSE [iso |-> now]
    IN IF link = "" THEN Null
       ELSE IF publishedAt = Threw THEN Threw
       ELSE NewsItem(makeId(link), title, link, source, publishedAt.iso, Clip(summary))

\* the items a loop of normalise calls pushes: Threw if one call throws,
\* the non-null results in order otherwise
Pushed(normalised) ==
    IF \E i \in 1..Len(normalised) : normalised[i] = Threw THEN Threw
    ELSE [items |-> SelectSeq(normalised, LAMBDA x : x # Null)]

\* the body of fetchFeed's try block
FetchFeedTry(outcome, now) ==
    IF outcome.kind = "error" THEN Threw
    ELSE LET feed == outcome.feed
             source == extractSource(feed)
         IN IF source = Threw THEN Threw
            ELSE Pushed([i \in 1..Len(feed.items) |->
                            normaliseItem(feed.items[i], source.source, now)])

\* fetchFeed gone wrong: no catch, so that an error rejects the promise
fetchFeed_NoCatch(outcome, now) ==
    LET r == FetchFeedTry(outcome, now)
    IN IF r = Threw THEN Rejected ELSE Fulfilled(r.items)

\* fetchFeed: the promise it returns, settled
fetchFeed(outcome, now) ==
    LET r == FetchFeedTry(outcome, now)
    IN IF r = Threw THEN Fulfilled(<<>>) ELSE Fulfilled(r.items)

(***************************************************************************)
(* lib/reddit.ts                                                           *)
(***************************************************************************)
\* fetchJSON: what the promise settles with for a request that meets
\* `upstream`: Threw for a rejection, the parsed body otherwise
RECURSIVE fetchJSON(_)
fetchJSON(upstream) ==
    IF upstream.event \in {"error", "timeout"} THEN Threw
    ELSE IF /\ upstream.statusCode >= 300
            /\ upstream.statusCode < 400
            /\ Has(upstream, "location") /\ upstream.location # ""
         THEN fetchJSON(upstream.next)
    ELSE IF upstream.statusCode # 200 THEN Threw
    ELSE IF Has(upstream.body, "json") THEN [listing |-> upstream.body.json]
    ELSE Threw

\* normalisePost gone wrong: the test of data.stickied is missing
normalisePost_KeepsStickied(post, now) ==
    LET data == post.data
        link == RedditLink(data)
        publishedAt == IF Has(data, "created_utc")
                       THEN ToISOString(IsoDate(data.created_utc * 1000))
                       ELSE Threw
        cleaned == IF Has(data, "selftext") THEN Trim(CollapseNewlines(data.selftext))
                   ELSE ""
    IN IF ~Has(data, "title") \/ Trim(data.title) = ""
       THEN Null
       ELSE IF link = "" THEN Null
       ELSE IF publishedAt = Threw THEN Threw
       ELSE NewsItem(makeId(link), Trim(data.title), link,
                     "r/" \o (IF Has(data, "subreddit") THEN data.subreddit ELSE "undefined"),
                     publishedAt.iso,
                     IF Has(data, "selftext") /\ data.selftext # "" THEN Clip(cleaned) ELSE "")

normalisePost(post, now) ==
    LET data == post.data
        link == RedditLink(data)
        publishedAt == IF Has(data, "created_utc")
                       THEN ToISOString(IsoDate(data.created_utc * 1000))
                       ELSE Threw
        cleaned == IF Has(data, "selftext") THEN Trim(CollapseNewlines(data.selftext))
                   ELSE ""
    IN IF (Has(data, "stickied") /\ data.stickied)
            \/ ~Has(data, "title") \/ Trim(data.title) = ""
       THEN Null
       ELSE IF link = "" THEN Null
       ELSE IF publishedAt = Threw THEN Threw
       ELSE NewsItem(makeId(link), Trim(data.title), link,
                     "r/" \o (IF Has(data, "subreddit") THEN data.subreddit ELSE "undefined"),
                     publishedAt.iso,
                     IF Has(data, "selftext") /\ data.selftext # "" THEN Clip(cleaned) ELSE "")

\* the body of fetchSubreddit's try block
FetchSubredditTry(upstream, now) ==
    LET got == fetchJSON(upstream)
    IN IF got = Threw THEN Threw
       ELSE IF ~Has(got.listing, "data") \/ ~Has(got.listing.data, "children") THEN Threw
       ELSE LET children == got.listing.data.children
            IN Pushed([i \in 1..Len(children) |-> normalisePost(children[i], now)])

\* fetchSubreddit: the promise it returns, settled
fetchSubreddit(upstream, now) ==
    LET r == FetchSubredditTry(upstream, now)
    IN IF r = Threw THEN Fulfilled(<<>>) ELSE Fulfilled(r.items)

(***************************************************************************)
(* The merge steps of getNews and of the route.                            *)
(***************************************************************************)
\* DedupByLink gone wrong: the links met are not added to `seen`
RECURSIVE DedupByLink_NoAdd(_, _)
DedupByLink_NoAdd(items, seen) ==
    IF items = <<>> THEN <<>>
    ELSE IF Head(items).link \in seen THEN DedupByLink_NoAdd(Tail(items), seen)
    ELSE <<Head(items)>> \o DedupByLink_NoAdd(Tail(items), seen)

\* keep the first occurrence of each link
RECURSIVE DedupByLink(_, _)
DedupByLink(items, seen) ==
    IF items = <<>> THEN <<>>
    ELSE IF Head(items).link \in seen THEN DedupByLink(Tail(items), seen)
    ELSE <<Head(items)>> \o DedupByLink(Tail(items), seen \cup {Head(items).link})

\* Compare gone wrong: the operands exchanged, which sorts oldest first
Compare_Ascending(a, b) == a.publishedAt - b.publishedAt

\* (a, b) => new Date(b.publishedAt).getTime() - new Date(a.publishedAt).getTime()
Compare(a, b) == b.publishedAt - a.publishedAt

\* InsertSorted gone wrong: x is placed before the elements that compare
\* equal to it, which is a sort that is not stable
RECURSIVE InsertSorted_BeforeEquals(_, _)
InsertSorted_BeforeEquals(sorted, x) ==
    IF sorted = <<>> THEN <<x>>
    ELSE IF Compare(Head(sorted), x) >= 0 THEN <<x>> \o sorted
    ELSE <<Head(sorted)>> \o InsertSorted_BeforeEquals(Tail(sorted), x)

\* where the stable sort places x in an already sorted array: after every
\* element that does not compare greater than it
RECURSIVE InsertSorted(_, _)
InsertSorted(sorted, x) ==
    IF sorted = <<>> THEN <<x>>
    ELSE IF Compare(Head(sorted), x) > 0 THEN <<x>> \o sorted
    ELSE <<Head(sorted)>> \o InsertSorted(Tail(sorted), x)

\* Array.prototype.sort with Compare: a stable sort (ECMAScript 2019)
RECURSIVE SortByPublishedAt(_)
SortByPublishedAt(items) ==
    IF items = <<>> THEN <<>>
    ELSE InsertSorted(SortByPublishedAt(SubSeq(items, 1, Len(items) - 1)),
                      items[Len(items)])

(***************************************************************************)
(* The state.                                                              *)
(***************************************************************************)
\* steps of the clock in one behaviour
MaxTicks == 2

TickSteps == {1, CACHE_TTL_MS - 1}

VARIABLES
    deploy,       \* the configured feeds and communities, and the request slots
    now,          \* Date.now()
    ticks,        \* the steps the clock has made
    rssCache,     \* lib/rss.ts: let cache
    redditCache,  \* lib/reddit.ts: let cache
    req,          \* the invocations of GET, by slot
    probe,        \* the last application of a pure function (SpecPure only)
    page          \* the article page in the browser (SpecPage only)

vars == <<deploy, now, ticks, rssCache, redditCache, req, probe, page>>

RSS_FEED_URLS == deploy.feeds
SUBREDDITS == deploy.subs
Requests == 1..deploy.slots

Idle == [pc |-> "idle"]

\* the article page before it is mounted
Unmounted == [mounted |-> FALSE, fetches |-> <<>>]

CacheEntry(data, expiresAt) == [data |-> data, expiresAt |-> expiresAt]

\* CacheValid gone wrong: the stored result never expires
CacheValid_NeverExpires(cache, t) == cache # Null

\* CacheValid gone wrong: the stored result is still served at expiresAt
CacheValid_Inclusive(cache, t) == cache # Null /\ t <= cache.expiresAt

\* if (cache && Date.now() < cache.expiresAt)
CacheValid(cache, t) == cache # Null /\ t < cache.expiresAt

\* getNews / getRedditNews up to the first await: the promise the call
\* returns and the per-upstream fetches it has started (n of them)
CacheCall(cache, t, n) ==
    IF CacheValid(cache, t)
    THEN [promise |-> Fulfilled(cache.data), branches |-> <<>>]
    ELSE [promise |-> Pending, branches |-> [i \in 1..n |-> Pending]]

\* getNewsResume gone wrong: a refresh that finds a stored result keeps the
\* expiry of that result and replaces the data only
getNewsResume_KeepsExpiry(feeds, cache, t) ==
    LET results == PromiseAll(feeds)
    IN IF results.state = "pending" THEN [promise |-> Pending, cache |-> cache]
       ELSE IF results.state = "rejected" THEN [promise |-> Rejected, cache |-> cache]
       ELSE LET unique == SortByPublishedAt(DedupByLink(Flat(results.value), {}))
            IN [promise |-> Fulfilled(unique),
                cache |-> CacheEntry(unique, IF cache = Null THEN t + CACHE_TTL_MS
                                             ELSE cache.expiresAt)]

\* getNewsResume gone wrong: a refresh that brought no item is not stored
getNewsResume_SkipsEmpty(feeds, cache, t) ==
    LET results == PromiseAll(feeds)
    IN IF results.state = "pending" THEN [promise |-> Pending, cache |-> cache]
       ELSE IF results.state = "rejected" THEN [promise |-> Rejected, cache |-> cache]
       ELSE LET unique == SortByPublishedAt(DedupByLink(Flat(results.value), {}))
            IN [promise |-> Fulfilled(unique),
                cache |-> IF unique = <<>> THEN cache
                          ELSE CacheEntry(unique, t + CACHE_TTL_MS)]

\* getNews after `await Promise.all(RSS_FEED_URLS.map(fetchFeed))`
getNewsResume(feeds, cache, t) ==
    LET results == PromiseAll(feeds)
    IN IF results.state = "pending" THEN [promise |-> Pending, cache |-> cache]
       ELSE IF results.state = "rejected" THEN [promise |-> Rejected, cache |-> cache]
       ELSE LET unique == SortByPublishedAt(DedupByLink(Flat(results.value), {}))
            IN [promise |-> Fulfilled(unique),
                cache |-> CacheEntry(unique, t + CACHE_TTL_MS)]

\* getRedditNews after `await Promise.all(SUBREDDITS.map(fetchSubreddit))`
getRedditNewsResume(subs, cache, t) ==
    LET results == PromiseAll(subs)
    IN IF results.state = "pending" THEN [promise |-> Pending, cache |-> cache]
       ELSE IF results.state = "rejected" THEN [promise |-> Rejected, cache |-> cache]
       ELSE LET allItems == Flat(results.value)
            IN [promise |-> Fulfilled(allItems),
                cache |-> CacheEntry(allItems, t + CACHE_TTL_MS)]

\* RouteRespond gone wrong: the Reddit items are put before the RSS items
RouteRespond_RedditFirst(rss, reddit) ==
    LET both == PromiseAll(<<rss, reddit>>)
    IN IF both.state = "pending" THEN Null
       ELSE IF both.state = "rejected"
            THEN [status |-> 500, body |-> [ok |-> FALSE, error |-> "Failed to fetch news feeds"]]
       ELSE LET allItems == both.value[2] \o both.value[1]
                unique == SortByPublishedAt(DedupByLink(allItems, {}))
            IN [status |-> 200,
                body |-> [ok |-> TRUE, count |-> Len(unique), items |-> unique]]

\* RouteRespond gone wrong: the message of the caught error is put into
\* the body of the 500 response
RouteRespond_LeaksError(rss, reddit) ==
    LET both == PromiseAll(<<rss, reddit>>)
    IN IF both.state = "pending" THEN Null
       ELSE IF both.state = "rejected"
            THEN [status |-> 500,
                  body |-> [ok |-> FALSE,
                            error |-> IF rss.state = "rejected" /\ Has(rss, "reason")
                                      THEN rss.reason
                                      ELSE "Failed to fetch news feeds"]]
       ELSE LET allItems == both.value[1] \o both.value[2]
                unique == SortByPublishedAt(DedupByLink(allItems, {}))
            IN [status |-> 200,
                body |-> [ok |-> TRUE, count |-> Len(unique), items |-> unique]]

\* GET after `await Promise.all([getNews(), getRedditNews()])`: the response,
\* Null while the await is pending
RouteRespond(rss, reddit) ==
    LET both == PromiseAll(<<rss, reddit>>)
    IN IF both.state = "pending" THEN Null
       ELSE IF both.state = "rejected"
            THEN [status |-> 500, body |-> [ok |-> FALSE, error |-> "Failed to fetch news feeds"]]
       ELSE LET allItems == both.value[1] \o both.value[2]
                unique == SortByPublishedAt(DedupByLink(allItems, {}))
            IN [status |-> 200,
                body |-> [ok |-> TRUE, count |-> Len(unique), items |-> unique]]

\* Continue gone wrong: GET concatenates the two sources in the order in
\* which their promises settled, the Reddit items first when getRedditNews
\* had settled in an earlier turn than getNews
Continue_CompletionOrder(rec, t) ==
    LET rss == IF rec.rss.state = "pending"
               THEN getNewsResume(rec.feeds, rssCache, t)
               ELSE [promise |-> rec.rss, cache |-> rssCache]
        reddit == IF rec.reddit.state = "pending"
                  THEN getRedditNewsResume(rec.subs, redditCache, t)
                  ELSE [promise |-> rec.reddit, cache |-> redditCache]
        response == IF rec.response # Null THEN rec.response
                    ELSE IF rec.reddit.state = "fulfilled" /\ rec.rss.state = "pending"
                         THEN RouteRespond(reddit.promise, rss.promise)
                         ELSE RouteRespond(rss.promise, reddit.promise)
    IN [rec |-> [rec EXCEPT !.rss = rss.promise, !.reddit = reddit.promise,
                            !.response = response,
                            !.pc = IF response = Null THEN "awaiting" ELSE "done"],
        rssCache |-> rss.cache,
        redditCache |-> reddit.cache]

\* Continue gone wrong: the two sources share one expiry, so that a refresh
\* of the RSS slot also renews the Reddit slot
Continue_SharedExpiry(rec, t) ==
    LET rss == IF rec.rss.state = "pending"
               THEN getNewsResume(rec.feeds, rssCache, t)
               ELSE [promise |-> rec.rss, cache |-> rssCache]
        reddit == IF rec.reddit.state = "pending"
                  THEN getRedditNewsResume(rec.subs, redditCache, t)
                  ELSE [promise |-> rec.reddit, cache |-> redditCache]
        response == IF rec.response = Null
                    THEN RouteRespond(rss.promise, reddit.promise)
                    ELSE rec.response
    IN [rec |-> [rec EXCEPT !.rss = rss.promise, !.reddit = reddit.promise,
                            !.response = response,
                            !.pc = IF response = Null THEN "awaiting" ELSE "done"],
        rssCache |-> rss.cache,
        redditCache |-> IF rss.cache # rssCache /\ reddit.cache # Null
                        THEN [reddit.cache EXCEPT !.expiresAt = rss.cache.expiresAt]
                        ELSE reddit.cache]

\* Continue gone wrong: GET sorts the array getRedditNews returned in place,
\* and that array is the one the Reddit cache holds
Continue_SortsInPlace(rec, t) ==
    LET rss == IF rec.rss.state = "pending"
               THEN getNewsResume(rec.feeds, rssCache, t)
               ELSE [promise |-> rec.rss, cache |-> rssCache]
        reddit == IF rec.reddit.state = "pending"
                  THEN getRedditNewsResume(rec.subs, redditCache, t)
                  ELSE [promise |-> rec.reddit, cache |-> redditCache]
        response == IF rec.response = Null
                    THEN RouteRespond(rss.promise, reddit.promise)
                    ELSE rec.response
    IN [rec |-> [rec EXCEPT !.rss = rss.promise, !.reddit = reddit.promise,
                            !.response = response,
                            !.pc = IF response = Null THEN "awaiting" ELSE "done"],
        rssCache |-> rss.cache,
        redditCache |-> IF rec.response = Null /\ response # Null /\ reddit.cache # Null
                        THEN [reddit.cache EXCEPT !.data = SortByPublishedAt(@)]
                        ELSE reddit.cache]

\* the continuations that run, in the same turn of the event loop, once
\* the promises of request record `rec` are as given
Continue(rec, t) ==
    LET rss == IF rec.rss.state = "pending"
               THEN getNewsResume(rec.feeds, rssCache, t)
               ELSE [promise |-> rec.rss, cache |-> rssCache]
        reddit == IF rec.reddit.state = "pending"
                  THEN getRedditNewsResume(rec.subs, redditCache, t)
                  ELSE [promise |-> rec.reddit, cache |-> redditCache]
        response == IF rec.response = Null
                    THEN RouteRespond(rss.promise, reddit.promise)
                    ELSE rec.response
    IN [rec |-> [rec EXCEPT !.rss = rss.promise, !.reddit = reddit.promise,
                            !.response = response,
                            !.pc = IF response = Null THEN "awaiting" ELSE "done"],
        rssCache |-> rss.cache,
        redditCache |-> reddit.cache]

Apply(r, out) ==
    /\ req' = [req EXCEPT ![r] = out.rec]
    /\ rssCache' = out.rssCache
    /\ redditCache' = out.redditCache

(***************************************************************************)
(* The actions.                                                            *)
(***************************************************************************)
Init ==
    /\ deploy \in Deployments
    /\ now = 0
    /\ ticks = 0
    /\ rssCache = Null
    /\ redditCache = Null
    /\ req = [r \in Requests |-> Idle]
    /\ probe = Null
    /\ page = Unmounted

\* a request arrives: GET runs getNews() and getRedditNews() up to their
\* awaits and, if both were served from their caches, to its response
GET(r) ==
    /\ req[r].pc = "idle"
    /\ LET rss == CacheCall(rssCache, now, Len(RSS_FEED_URLS))
           reddit == CacheCall(redditCache, now, Len(SUBREDDITS))
           rec == [pc |-> "awaiting",
                   feeds |-> rss.branches, feedFailed |-> {},
                   subs |-> reddit.branches, subFailed |-> {},
                   rss |-> rss.promise, reddit |-> reddit.promise,
                   response |-> Null]
       IN IF rss.promise.state = "fulfilled" /\ reddit.promise.state = "fulfilled"
          THEN Apply(r, Continue(rec, now))
          ELSE Apply(r, [rec |-> rec, rssCache |-> rssCache, redditCache |-> redditCache])
    /\ UNCHANGED <<deploy, now, ticks, probe, page>>

\* parser.parseURL of feed number f of request r ends
FeedSettles(r, f) ==
    /\ req[r].pc # "idle"
    /\ f \in DOMAIN req[r].feeds
    /\ req[r].feeds[f].state = "pending"
    /\ \E outcome \in FeedOutcomes(f) :
          LET rec == [req[r] EXCEPT
                         !.feeds[f] = fetchFeed(outcome, now),
                         !.feedFailed = IF outcome.kind = "error" THEN @ \cup {f} ELSE @]
          IN Apply(r, Continue(rec, now))
    /\ UNCHANGED <<deploy, now, ticks, probe, page>>

\* the https request for the listing of community number n of request r ends
SubSettles(r, n) ==
    /\ req[r].pc # "idle"
    /\ n \in DOMAIN req[r].subs
    /\ req[r].subs[n].state = "pending"
    /\ \E upstream \in SubOutcomes(n) :
          LET rec == [req[r] EXCEPT
                         !.subs[n] = fetchSubreddit(upstream, now),
                         !.subFailed = IF fetchJSON(upstream) = Threw THEN @ \cup {n} ELSE @]
          IN Apply(r, Continue(rec, now))
    /\ UNCHANGED <<deploy, now, ticks, probe, page>>

\* the response of request r has been sent; its slot is free again
RequestEnds(r) ==
    /\ req[r].pc = "done"
    /\ req' = [req EXCEPT ![r] = Idle]
    /\ UNCHANGED <<deploy, now, ticks, rssCache, redditCache, probe, page>>

\* time passes
Tick ==
    /\ ticks < MaxTicks
    /\ \E d \in TickSteps : now' = now + d
    /\ ticks' = ticks + 1
    /\ UNCHANGED <<deploy, rssCache, redditCache, req, probe, page>>

Next ==
    \/ \E r \in Requests : GET(r)
    \/ \E r \in Requests, f \in 1..Len(RSS_FEED_URLS) : FeedSettles(r, f)
    \/ \E r \in Requests, n \in 1..Len(SUBREDDITS) : SubSettles(r, n)
    \/ \E r \in Requests : RequestEnds(r)
    \/ Tick

Spec == Init /\ [][Next]_vars

(***************************************************************************)
(* The same machine with the requests of fetchJSON taken one by one: the   *)
(* request for a listing may be answered by a 3xx with a Location, and     *)
(* fetchJSON then starts a new request for that location, whose promise    *)
(* settles the first one.  A pending fetch of a community carries the url  *)
(* of the request it is waiting for (the url of the listing when it        *)
(* carries none).                                                          *)
(***************************************************************************)
ListingUrl(name) == "https://www.reddit.com/r/" \o name \o "/hot.json?limit=25&raw_json=1"
OldListingUrl(name) == "https://old.reddit.com/r/" \o name \o "/hot.json?limit=25&raw_json=1"

\* the url the pending fetch of community number n of request r waits for
RequestedUrl(r, n) ==
    IF Has(req[r].subs[n], "url") THEN req[r].subs[n].url ELSE ListingUrl(SUBREDDITS[n])

\* the request for the listing of community number n of request r is answered
\* by a 3xx with a Location header: fetchJSON(res.headers.location) is called
\* and the fetch stays pending, on the new request
SubRedirects(r, n) ==
    /\ req[r].pc # "idle"
    /\ n \in DOMAIN req[r].subs
    /\ req[r].subs[n].state = "pending"
    /\ \E location \in {ListingUrl(SUBREDDITS[n]), OldListingUrl(SUBREDDITS[n])}
                          \ {RequestedUrl(r, n)} :
          req' = [req EXCEPT ![r].subs[n] = [state |-> "pending", url |-> location]]
    /\ UNCHANGED <<deploy, now, ticks, rssCache, redditCache, probe, page>>

\* what the calls of this machine end with: the failures of the menus
\* above, and a feed and a listing without records (the records play no
\* part in whether a call ends)
LiveFeedOutcomes ==
    {[kind |-> "error", why |-> w] : w \in FeedFailures}
      \cup {[kind |-> "feed", feed |-> [title |-> "NYT", items |-> <<>>]]}
LiveSubOutcomes ==
    {[event |-> "error"], [event |-> "timeout"], Response(503, [text |-> "busy"]),
     Response(200, [json |-> Listing(<<>>)])}

\* parser.parseURL of feed number f of request r ends
FeedEnds(r, f) ==
    /\ req[r].pc # "idle"
    /\ f \in DOMAIN req[r].feeds
    /\ req[r].feeds[f].state = "pending"
    /\ \E outcome \in LiveFeedOutcomes :
          \E rec \in {[req[r] EXCEPT
                         !.feeds[f] = fetchFeed(outcome, now),
                         !.feedFailed = IF outcome.kind = "error" THEN @ \cup {f} ELSE @]} :
             \E out \in {Continue(rec, now)} : Apply(r, out)
    /\ UNCHANGED <<deploy, now, ticks, probe, page>>

\* the request the pending fetch of community number n of request r waits
\* for ends without a redirect: it errors, its timer destroys it, or a
\* response other than a 3xx with a Location arrives
SubAnswers(r, n) ==
    /\ req[r].pc # "idle"
    /\ n \in DOMAIN req[r].subs
    /\ req[r].subs[n].state = "pending"
    /\ \E upstream \in LiveSubOutcomes :
          \E rec \in {[req[r] EXCEPT
                         !.subs[n] = fetchSubreddit(upstream, now),
                         !.subFailed = IF fetchJSON(upstream) = Threw THEN @ \cup {n} ELSE @]} :
             \E out \in {Continue(rec, now)} : Apply(r, out)
    /\ UNCHANGED <<deploy, now, ticks, probe, page>>

NextLive ==
    \/ \E r \in Requests : GET(r)
    \/ \E r \in Requests, f \in 1..Len(RSS_FEED_URLS) : FeedEnds(r, f)
    \/ \E r \in Requests, n \in 1..Len(SUBREDDITS) : SubAnswers(r, n)
    \/ \E r \in Requests, n \in 1..Len(SUBREDDITS) : SubRedirects(r, n)
    \/ \E r \in Requests : RequestEnds(r)
    \/ Tick

\* the deployment of this machine: the first feed and the first two
\* communities, one request at a time
LiveDeployment ==
    [feeds |-> <<"https://rss.nytimes.com/services/xml/rss/nyt/HomePage.xml">>,
     subs |-> <<"worldnews", "news">>,
     slots |-> 1]

InitLive ==
    /\ deploy = LiveDeployment
    /\ now = 0
    /\ ticks = 0
    /\ rssCache = Null
    /\ redditCache = Null
    /\ req = [r \in Requests |-> Idle]
    /\ probe = Null
    /\ page = Unmounted

\* every network call ends: parser.parseURL settles (it gives up after 10 s
\* and after five redirects), and every https request of fetchJSON is
\* answered, errors or is destroyed by its 10 s timer; the continuations of
\* the promises run in the same step
EveryCallEnds ==
    /\ \A r \in 1..LiveDeployment.slots, f \in 1..Len(LiveDeployment.feeds) :
          WF_vars(FeedEnds(r, f))
    /\ \A r \in 1..LiveDeployment.slots, n \in 1..Len(LiveDeployment.subs) :
          WF_vars(SubRedirects(r, n) \/ SubAnswers(r, n))

SpecLive == InitLive /\ [][NextLive]_vars /\ EveryCallEnds

(***************************************************************************)
(* JSON values, as JSON.parse and req.json() return them.                  *)
(***************************************************************************)
JNull == [t |-> "null"]
JString(s) == [t |-> "string", v |-> s]
JNumber(n) == [t |-> "number", n |-> n]
JArray(elements) == [t |-> "array", items |-> elements]
JObject(fields) == [t |-> "object", fields |-> fields]

\* typeof obj[k] === "string"
IsStringField(obj, k) == obj.t = "object" /\ Has(obj.fields, k) /\ obj.fields[k].t = "string"
\* Array.isArray(obj[k])
IsArrayField(obj, k) == obj.t = "object" /\ Has(obj.fields, k) /\ obj.fields[k].t = "array"

(***************************************************************************)
(* lib/practice.ts                                                         *)
(***************************************************************************)
UpperCase == "ABCDEFGHIJKLMNOPQRSTUVWXYZ"
LowerCase == "abcdefghijklmnopqrstuvwxyz"
Digits == "0123456789"
InString(c, s) == \E i \in 1..Len(s) : CharAt(s, i) = c

\* one character through toLowerCase() and replace(/[^a-z0-9\s]/g, "")
CleanChar(c) ==
    IF InString(c, UpperCase)
    THEN CharAt(LowerCase, CHOOSE i \in 1..Len(UpperCase) : CharAt(UpperCase, i) = c)
    ELSE IF InString(c, LowerCase) \/ InString(c, Digits) \/ IsSpace(c) THEN c
    ELSE ""

RECURSIVE CleanText(_)
CleanText(s) ==
    IF s = "" THEN "" ELSE CleanChar(CharAt(s, 1)) \o CleanText(SubSeq(s, 2, Len(s)))

\* split(/\s+/)
RECURSIVE SplitSpaces(_)
SplitSpaces(s) ==
    LET gap == FirstIndex(s, 1, IsSpace)
    IN IF gap = 0 THEN <<s>>
       ELSE LET next == FirstIndex(s, gap, NotSpace)
            IN <<SubSeq(s, 1, gap - 1)>>
                 \o (IF next = 0 THEN <<"">> ELSE SplitSpaces(SubSeq(s, next, Len(s))))

StopWords ==
    {"about", "after", "again", "being", "between", "could", "does",
     "during", "every", "found", "from", "going", "great", "have",
     "into", "just", "might", "more", "much", "never", "only", "other",
     "over", "people", "really", "should", "since", "still", "their",
     "them", "then", "there", "these", "they", "this", "those", "through",
     "under", "very", "want", "were", "what", "when", "where", "which",
     "while", "will", "with", "would", "your"}

RECURSIVE UniqueWords(_, _)
UniqueWords(words, seen) ==
    IF words = <<>> THEN <<>>
    ELSE IF Head(words) \in seen THEN UniqueWords(Tail(words), seen)
    ELSE <<Head(words)>> \o UniqueWords(Tail(words), seen \cup {Head(words)})

extractKeywords(text, max) ==
    LET words == SelectSeq(SplitSpaces(CleanText(text)),
                           LAMBDA w : Len(w) > 4 /\ w \notin StopWords)
        unique == UniqueWords(words, {})
    IN SubSeq(unique, 1, IF max < Len(unique) THEN max ELSE Len(unique))

\* h << 5 on a 32-bit word
Shl5(a) == <<(a[1] * 32 + a[2] \div 2048) % 65536, (a[2] * 32) % 65536>>

\* hash: h = ((h << 5) + h + s.charCodeAt(i)) >>> 0, from 5381
RECURSIVE HashFrom(_, _)
HashFrom(h, s) ==
    IF s = "" THEN h
    ELSE HashFrom(Add32(Add32(Shl5(h), h), <<0, CharCode(CharAt(s, 1))>>),
                  SubSeq(s, 2, Len(s)))
hash(s) == HashFrom(<<0, 5381>>, s)

\* a 32-bit word modulo n, n small
Mod32(a, n) == ((a[1] % n) * (65536 % n) + a[2]) % n

\* pick: arr[(seed + index) % arr.length]
pick(arr, seed, index) == arr[((Mod32(seed, Len(arr)) + index) % Len(arr)) + 1]

\* the template pools, each template written as its pool and its position;
\* a template applied to a keyword is written as the pair of the two
BULLET_TEMPLATES == [i \in 1..10 |-> [pool |-> "bullet", at |-> i - 1]]
STEP_TEMPLATES == [i \in 1..10 |-> [pool |-> "step", at |-> i - 1]]
EXERCISE_TEMPLATES == [i \in 1..6 |-> [pool |-> "exercise", at |-> i - 1]]
Render(template, kw) == [template |-> template, kw |-> kw]

generateFallbackContent(title, summary) ==
    LET extracted == extractKeywords(title \o " " \o summary, 8)
        filler == IF extracted = <<>> THEN "this topic" ELSE extracted[1]
        keywords == [i \in 1..8 |-> IF i <= Len(extracted) THEN extracted[i] ELSE filler]
        seed == hash(title)
        stepCount == 5 + Mod32(seed, 4)
    IN [bullets |-> [i \in 1..5 |->
                        Render(pick(BULLET_TEMPLATES, seed, i - 1), keywords[((i - 1) % 8) + 1])],
        steps |-> [i \in 1..stepCount |->
                      Render(pick(STEP_TEMPLATES, seed, i + 9), keywords[((i + 1) % 8) + 1])],
        exercises |-> [i \in 1..3 |->
                          LET tpl == pick(EXERCISE_TEMPLATES, seed, i + 19)
                              kw == keywords[((i + 3) % 8) + 1]
                          IN [q |-> Render([tpl EXCEPT !.pool = "exercise.q"], kw),
                              a |-> Render([tpl EXCEPT !.pool = "exercise.a"], kw)]]]

(***************************************************************************)
(* lib/llm.ts.  A completion text is written by what it holds: whether it  *)
(* is wrapped in a markdown fence, and the value JSON.parse gives for it   *)
(* once the fence is stripped, if it parses at all.                        *)
(***************************************************************************)
RawText(fenced, value) == [fenced |-> fenced, parses |-> TRUE, value |-> value]
Unparseable == [fenced |-> FALSE, parses |-> FALSE]
EmptyText == [empty |-> TRUE]

FirstN(seq, n) == SubSeq(seq, 1, IF n < Len(seq) THEN n ELSE Len(seq))

parseResponse(raw) ==
    IF ~raw.parses THEN Null
    ELSE LET obj == raw.value
         IN IF obj.t = "null" THEN Null
            ELSE IF ~(IsArrayField(obj, "bullets") /\ IsArrayField(obj, "steps")
                        /\ IsArrayField(obj, "exercises"))
                 THEN Null
            ELSE LET strings(arr) == SelectSeq(arr, LAMBDA e : e.t = "string")
                     text(arr) == [i \in 1..Len(arr) |-> arr[i].v]
                     bullets == text(FirstN(strings(obj.fields.bullets.items), 5))
                     steps == text(FirstN(strings(obj.fields.steps.items), 8))
                     pairs == FirstN(SelectSeq(obj.fields.exercises.items,
                                               LAMBDA e : IsStringField(e, "q")
                                                            /\ IsStringField(e, "a")), 3)
                     exercises == [i \in 1..Len(pairs) |->
                                      [q |-> pairs[i].fields.q.v, a |-> pairs[i].fields.a.v]]
                 IN IF bullets = <<>> /\ steps = <<>> /\ exercises = <<>> THEN Null
                    ELSE [bullets |-> bullets, steps |-> steps, exercises |-> exercises]

\* process.env.OPENAI_API_KEY is set and not empty
KeyConfigured(key) == Has(key, "value") /\ key.value # ""

\* completion.choices[0]?.message?.content, Null for undefined and null
FirstContent(llm) ==
    IF llm.choices = <<>> THEN Null ELSE llm.choices[1].content

\* generateWithLLM with the call of the API ending as `llm`
generateWithLLM(key, llm) ==
    IF ~KeyConfigured(key) THEN Null
    ELSE IF llm.kind = "error" THEN Null
    ELSE LET text == FirstContent(llm)
         IN IF text = Null \/ text = EmptyText THEN Null ELSE parseResponse(text)

\* generateHelpAnswer with the call of the API ending as `llm`
generateHelpAnswer(key, llm) ==
    IF ~KeyConfigured(key) THEN Null
    ELSE IF llm.kind = "error" THEN Null
    ELSE LET content == FirstContent(llm)
         IN IF content = Null \/ Trim(content.text) = "" THEN Null
            ELSE [text |-> Trim(content.text)]

(***************************************************************************)
(* app/api/practice/route.ts and app/api/help/route.ts                     *)
(***************************************************************************)
\* typeof obj[k] === "string" ? obj[k].trim() : ""
TrimmedField(obj, k) == IF IsStringField(obj, k) THEN Trim(obj.fields[k].v) ELSE ""

\* validateBody of the practice route; `body` is Null when req.json() rejects
validatePracticeBody(body) ==
    IF body = Null \/ body.t \notin {"object", "array"} THEN Null
    ELSE LET strings == IF IsArrayField(body, "topics")
                        THEN SelectSeq(body.fields.topics.items, LAMBDA e : e.t = "string")
                        ELSE <<>>
             trimmed == [i \in 1..Len(strings) |-> Trim(strings[i].v)]
         IN IF TrimmedField(body, "title") = "" THEN Null
            ELSE [title |-> TrimmedField(body, "title"),
                  summary |-> TrimmedField(body, "summary"),
                  topics |-> SelectSeq(trimmed, LAMBDA w : w # "")]

\* validateBody of the help route
validateHelpBody(body) ==
    IF body = Null \/ body.t \notin {"object", "array"} THEN Null
    ELSE IF TrimmedField(body, "title") = "" \/ TrimmedField(body, "question") = ""
         THEN Null
    ELSE [title |-> TrimmedField(body, "title"),
          summary |-> TrimmedField(body, "summary"),
          question |-> TrimmedField(body, "question")]

\* the strings of the routes, the grave accents written as apostrophes and
\* the static answer cut after its first sentence
PracticeInvalid == "Invalid request body. At minimum, 'title' (string) is required."
HelpInvalid == "Invalid request body. 'title' (string) and 'question' (string) are required."
HelpFallback == "I wasn't able to generate a detailed answer right now. "

\* POST of the practice route gone wrong: `source` stays "llm" when the
\* content is the fallback content
PracticePOST_KeepsSource(body, key, llm) ==
    LET input == validatePracticeBody(body)
    IN IF input = Null
       THEN [status |-> 400, body |-> [ok |-> FALSE, error |-> PracticeInvalid]]
       ELSE LET generated == IF KeyConfigured(key) THEN generateWithLLM(key, llm) ELSE Null
                content == IF generated = Null
                           THEN generateFallbackContent(input.title, input.summary)
                           ELSE generated
            IN [status |-> 200,
                body |-> [ok |-> TRUE,
                          source |-> "llm",
                          bullets |-> content.bullets,
                          steps |-> content.steps,
                          exercises |-> content.exercises]]

\* POST of the practice route
PracticePOST(body, key, llm) ==
    LET input == validatePracticeBody(body)
    IN IF input = Null
       THEN [status |-> 400, body |-> [ok |-> FALSE, error |-> PracticeInvalid]]
       ELSE LET generated == IF KeyConfigured(key) THEN generateWithLLM(key, llm) ELSE Null
                content == IF generated = Null
                           THEN generateFallbackContent(input.title, input.summary)
                           ELSE generated
            IN [status |-> 200,
                body |-> [ok |-> TRUE,
                          source |-> IF generated = Null THEN "fallback" ELSE "llm",
                          bullets |-> content.bullets,
                          steps |-> content.steps,
                          exercises |-> content.exercises]]

\* POST of the help route
HelpPOST(body, key, llm) ==
    LET input == validateHelpBody(body)
    IN IF input = Null
       THEN [status |-> 400, body |-> [ok |-> FALSE, error |-> HelpInvalid]]
       ELSE LET generated == IF KeyConfigured(key) THEN generateHelpAnswer(key, llm) ELSE Null
            IN [status |-> 200,
                body |-> [ok |-> TRUE,
                          answer |-> IF generated = Null THEN HelpFallback
                                     ELSE generated.text]]

(***************************************************************************)
(* The pure functions on their own: normaliseItem, normalisePost and       *)
(* makeId applied to inputs drawn from bounded sets.                       *)
(***************************************************************************)
\* the longest upstream text
MaxTextLen == 503

RECURSIVE Repeat(_, _)
Repeat(c, n) ==
    IF n = 0 THEN ""
    ELSE IF n % 2 = 0 THEN LET half == Repeat(c, n \div 2) IN half \o half
    ELSE c \o Repeat(c, n - 1)

TextLens == (0..2) \cup ((MaxTextLen - 8)..MaxTextLen)

\* texts of n characters: plain, with white space at both ends, marked up,
\* and with runs of line feeds
PlainTexts == {Repeat("x", n) : n \in TextLens}
PaddedTexts == {" " \o Repeat("y", n - 2) \o "\n" : n \in TextLens \ {0, 1}}
MarkupTexts == {"<p>" \o Repeat("z", n - 7) \o "</p>" : n \in TextLens \ (0..6)}
LineTexts == {Repeat("w", n - 4) \o "\n\n\n" \o "w" : n \in TextLens \ (0..3)}

WithField(obj, field, values) ==
    {[k \in DOMAIN obj \cup {field} |-> IF k = field THEN v ELSE obj[k]] : v \in values}

ProbeItems ==
    LET base == [link |-> LinkA, title |-> "T", isoDate |-> IsoDate(4)]
        shapes ==
            UNION {UNION {WithField(o2, "isoDate", {IsoDate(4), BadDate}) \cup {o2} :
                            o2 \in WithField(o1, "title", {"", "  ", " T "}) \cup {o1}} :
                     o1 \in WithField([contentSnippet |-> "s"], "link",
                                      {"", "  ", LinkA, " " \o LinkA \o " "})
                              \cup {[contentSnippet |-> "s"]}}
    IN shapes
         \cup WithField(base, "contentSnippet", PlainTexts \cup PaddedTexts)
         \cup WithField(base, "content", PlainTexts \cup MarkupTexts)
         \cup WithField([base EXCEPT !.title = "both"] @@ [contentSnippet |-> " "],
                        "content", MarkupTexts)

ProbePosts ==
    LET base == [title |-> "P", url |-> LinkA, permalink |-> "/r/news/p", is_self |-> TRUE,
                 stickied |-> FALSE, created_utc |-> 2, subreddit |-> "news"]
        kinds == {[subreddit |-> "news", is_self |-> TRUE],
                  [subreddit |-> "news", is_self |-> FALSE],
                  [subreddit |-> "news"]}
        shapes ==
            UNION {UNION {UNION {UNION {UNION {
                WithField(o5, "created_utc", {2}) \cup {o5} :
                    o5 \in WithField(o4, "permalink", {"/r/news/p"}) \cup {o4}} :
                    o4 \in WithField(o3, "url", {"", LinkB}) \cup {o3}} :
                    o3 \in WithField(o2, "title", {" ", " P "}) \cup {o2}} :
                    o2 \in WithField(o1, "stickied", {TRUE, FALSE}) \cup {o1}} :
                    o1 \in kinds}
    IN {Post(p) : p \in shapes
                    \cup WithField(base, "selftext", PlainTexts \cup PaddedTexts \cup LineTexts)}

ProbeTimes == {0, 7}

ProbeNormaliseItem ==
    /\ probe = Null
    /\ \E item \in ProbeItems, t \in ProbeTimes :
          probe' = [op |-> "normaliseItem", input |-> item, at |-> t,
                    output |-> normaliseItem(item, "Feed", t)]
    /\ UNCHANGED <<deploy, now, ticks, rssCache, redditCache, req, page>>

ProbeNormalisePost ==
    /\ probe = Null
    /\ \E post \in ProbePosts :
          probe' = [op |-> "normalisePost", input |-> post.data, at |-> 0,
                    output |-> normalisePost(post, 0)]
    /\ UNCHANGED <<deploy, now, ticks, rssCache, redditCache, req, page>>

\* makeId is called once, and then a second time
ProbeMakeId ==
    /\ probe = Null
    /\ \E link \in ProbeLinks :
          probe' = [op |-> "makeId", calls |-> <<[link |-> link, id |-> makeId(link)]>>]
    /\ UNCHANGED <<deploy, now, ticks, rssCache, redditCache, req, page>>

ProbeMakeIdAgain ==
    /\ probe # Null /\ probe.op = "makeId" /\ Len(probe.calls) = 1
    /\ \E link \in ProbeLinks :
          probe' = [probe EXCEPT !.calls = Append(@, [link |-> link, id |-> makeId(link)])]
    /\ UNCHANGED <<deploy, now, ticks, rssCache, redditCache, req, page>>

\* what getNews() and getRedditNews() can settle with when GET awaits them:
\* the items of any upstream of the menus, or an error thrown inside
ProbeErrors == {"TypeError: fetch failed", "RangeError: Invalid time value"}
ProbeSettled ==
    {fetchFeed(o, 0) : o \in FeedOutcomes(1) \cup FeedOutcomes(2)}
      \cup {fetchSubreddit(u, 0) : u \in SubOutcomes(1) \cup SubOutcomes(2)}
      \cup {[state |-> "rejected", reason |-> e] : e \in ProbeErrors}

\* the body of GET from its await on
ProbeGET ==
    /\ probe = Null
    /\ \E rss \in ProbeSettled, reddit \in ProbeSettled :
          probe' = [op |-> "GET", input |-> <<rss, reddit>>,
                    output |-> RouteRespond(rss, reddit)]
    /\ UNCHANGED <<deploy, now, ticks, rssCache, redditCache, req, page>>

\* process.env.OPENAI_API_KEY: not set, set to nothing, set
ProbeKeys == {[unset |-> TRUE], [value |-> ""], [value |-> "sk-test"]}

\* request bodies; Null is a body that is not JSON
ProbePracticeBodies ==
    {Null, JNull, JString("title"), JNumber(1), JArray(<<JString("title")>>),
     JObject([summary |-> JString("Solar power grids")]),
     JObject([title |-> JNumber(1)]),
     JObject([title |-> JString("  ")]),
     JObject([title |-> JString(" Solar Power ")]),
     JObject([title |-> JString("Why?"), summary |-> JNumber(2),
              topics |-> JString("energy")]),
     JObject([title |-> JString("Solar Power"),
              summary |-> JString(" About the SOLAR grids; solar panels power these grids. "),
              topics |-> JArray(<<JString(" energy "), JNumber(3), JString(" ")>>)])}

ProbeHelpBodies ==
    {Null, JNull, JArray(<<>>),
     JObject([question |-> JString("Why now?")]),
     JObject([title |-> JString("Solar Power")]),
     JObject([title |-> JString("Solar Power"), question |-> JNumber(1)]),
     JObject([title |-> JString("Solar Power"), question |-> JString(" ")]),
     JObject([title |-> JString(" "), question |-> JString("Why now?")]),
     JObject([title |-> JString(" Solar Power "), question |-> JString(" Why now? ")]),
     JObject([title |-> JString("Solar Power"), summary |-> JString(" Grids. "),
              question |-> JString("Why now?")])}

\* a completion text holding more of everything than parseResponse keeps,
\* next to elements of the wrong type
ProbeContent ==
    JObject([bullets |-> JArray(<<JString("b1"), JNumber(0), JString("b2"), JString("b3"),
                                  JString("b4"), JString("b5"), JString("b6")>>),
             steps |-> JArray(<<JString("s1"), JString("s2"), JNull, JString("s3"),
                                JString("s4"), JString("s5"), JString("s6"),
                                JString("s7"), JString("s8"), JString("s9")>>),
             exercises |-> JArray(<<JObject([q |-> JString("q1"), a |-> JString("a1")]),
                                    JObject([q |-> JString("q?")]),
                                    JNull,
                                    JObject([q |-> JString("q2"), a |-> JString("a2"),
                                             hint |-> JString("h")]),
                                    JObject([q |-> JString("q3"), a |-> JString("a3")]),
                                    JObject([q |-> JString("q4"), a |-> JString("a4")])>>)])

\* how the call of the chat completions API ends, for the practice content
ProbePracticeCompletions ==
    {[kind |-> "error"], [kind |-> "ok", choices |-> <<>>]}
    \cup {[kind |-> "ok", choices |-> <<[content |-> c]>>] :
            c \in {Null, EmptyText, Unparseable,
                   RawText(FALSE, JNull), RawText(FALSE, JNumber(7)),
                   RawText(FALSE, JArray(<<>>)),
                   RawText(FALSE, JObject([bullets |-> JArray(<<JString("b1")>>)])),
                   RawText(TRUE, JObject([bullets |-> JArray(<<JNumber(1)>>),
                                          steps |-> JArray(<<>>),
                                          exercises |-> JArray(<<JNull,
                                                                 JObject([q |-> JString("q")])>>)])),
                   RawText(FALSE, JObject([bullets |-> JArray(<<>>),
                                           steps |-> JArray(<<JString("s1")>>),
                                           exercises |-> JArray(<<>>)])),
                   RawText(FALSE, ProbeContent), RawText(TRUE, ProbeContent)}}

\* the same for the help answer
ProbeHelpCompletions ==
    {[kind |-> "error"], [kind |-> "ok", choices |-> <<>>]}
    \cup {[kind |-> "ok", choices |-> <<[content |-> c]>>] :
            c \in {Null, [text |-> ""], [text |-> "  "],
                   [text |-> " Because panels got cheaper. "]}}

ProbePracticePOST ==
    /\ probe = Null
    /\ \E body \in ProbePracticeBodies, key \in ProbeKeys, llm \in ProbePracticeCompletions :
          probe' = [op |-> "practice", input |-> [body |-> body, key |-> key, llm |-> llm],
                    output |-> PracticePOST(body, key, llm)]
    /\ UNCHANGED <<deploy, now, ticks, rssCache, redditCache, req, page>>

ProbeHelpPOST ==
    /\ probe = Null
    /\ \E body \in ProbeHelpBodies, key \in ProbeKeys, llm \in ProbeHelpCompletions :
          probe' = [op |-> "help", input |-> [body |-> body, key |-> key, llm |-> llm],
                    output |-> HelpPOST(body, key, llm)]
    /\ UNCHANGED <<deploy, now, ticks, rssCache, redditCache, req, page>>

\* a record with every field in order, and the same record with an optional
\* field missing or malformed
ProbeGoodPosts ==
    <<Post([title |-> "A (news)", url |-> LinkA, is_self |-> FALSE, stickied |-> FALSE,
            created_utc |-> 1, subreddit |-> "news", selftext |-> ""]),
      Post([title |-> "B (news)", url |-> LinkB, is_self |-> FALSE, stickied |-> FALSE,
            created_utc |-> 2, subreddit |-> "news", selftext |-> ""])>>
ProbeOddPosts ==
    {Post([title |-> "no epoch", url |-> LinkC, is_self |-> FALSE, stickied |-> FALSE,
           subreddit |-> "news"]),
     Post([title |-> "no community", url |-> LinkC, is_self |-> FALSE, created_utc |-> 3]),
     Post([title |-> "no link", is_self |-> FALSE, stickied |-> FALSE, created_utc |-> 3,
           subreddit |-> "news"]),
     Post([title |-> "C (news)", url |-> LinkC, is_self |-> FALSE, stickied |-> FALSE,
           created_utc |-> 3, subreddit |-> "news"])}

ProbeGoodItems ==
    <<[link |-> LinkA, title |-> "A", isoDate |-> IsoDate(3), contentSnippet |-> "alpha"],
      [link |-> LinkB, title |-> "B", isoDate |-> IsoDate(5)]>>
ProbeOddItems ==
    {[link |-> LinkC, title |-> "bad date", isoDate |-> BadDate],
     [link |-> LinkC, title |-> "no date"],
     [link |-> LinkC],
     [title |-> "no link", isoDate |-> IsoDate(4)]}
ProbeFeedHeads ==
    {[title |-> " NYT ", link |-> "https://www.nytimes.com/"],
     [link |-> "https://www.bbc.co.uk/news"],
     [title |-> "  ", link |-> "https://www.bbc.co.uk/news"],
     [title |-> "BBC"],
     [title |-> " "],
     [link |-> "not a url"]}

\* the records of a probe: the odd one before, between or after the good ones
Around(good, odd) ==
    {<<odd, good[1], good[2]>>, <<good[1], odd, good[2]>>, <<good[1], good[2], odd>>}

ProbeFetchSubreddit ==
    /\ probe = Null
    /\ \E odd \in ProbeOddPosts, t \in ProbeTimes :
         \E posts \in Around(ProbeGoodPosts, odd) :
            probe' = [op |-> "fetchSubreddit", input |-> posts, at |-> t,
                      output |-> fetchSubreddit(Response(200, [json |-> Listing(posts)]), t)]
    /\ UNCHANGED <<deploy, now, ticks, rssCache, redditCache, req, page>>

ProbeFetchFeed ==
    /\ probe = Null
    /\ \E head \in ProbeFeedHeads, odd \in ProbeOddItems, t \in ProbeTimes :
         \E items \in Around(ProbeGoodItems, odd) :
            probe' = [op |-> "fetchFeed", input |-> head @@ [items |-> items], at |-> t,
                      output |-> fetchFeed([kind |-> "feed",
                                            feed |-> head @@ [items |-> items]], t)]
    /\ UNCHANGED <<deploy, now, ticks, rssCache, redditCache, req, page>>

NextPure ==
    \/ ProbeNormaliseItem
    \/ ProbeNormalisePost
    \/ ProbeMakeId
    \/ ProbeMakeIdAgain
    \/ ProbeGET
    \/ ProbePracticePOST
    \/ ProbeHelpPOST
    \/ ProbeFetchSubreddit
    \/ ProbeFetchFeed

InitPure == Init /\ deploy.slots = 1

SpecPure == InitPure /\ [][NextPure]_vars

(***************************************************************************)
(* Vocabulary of the properties.                                           *)
(***************************************************************************)
Range(seq) == {seq[i] : i \in 1..Len(seq)}
LinksOf(items) == {items[i].link : i \in 1..Len(items)}

Answered(r) == req[r].pc = "done"
Succeeded(r) == Answered(r) /\ req[r].response.status = 200
ItemsOf(r) == req[r].response.body.items

\* request r fetched the feeds (the communities) itself, not from the cache
RefreshedRss(r) == req[r].pc # "idle" /\ req[r].feeds # <<>>
RefreshedReddit(r) == req[r].pc # "idle" /\ req[r].subs # <<>>

\* the settled per-upstream results of request r in the declared order: the
\* feeds of RSS_FEED_URLS, then the communities of SUBREDDITS
BranchesOf(r) == req[r].feeds \o req[r].subs
FailedBranches(r) == req[r].feedFailed \cup {Len(req[r].feeds) + n : n \in req[r].subFailed}

\* the items of the upstreams of request r that did not fail
LiveItems(r) ==
    UNION {Range(BranchesOf(r)[b].value) :
             b \in {c \in 1..Len(BranchesOf(r)) :
                      c \notin FailedBranches(r) /\ BranchesOf(r)[c].state = "fulfilled"}}

(***************************************************************************)
(* C1.  Whatever subset of the feeds and communities fails to be fetched,  *)
(* a request that refreshes both sources is answered 200, and its items    *)
(* are the items of the upstreams that did not fail, one per link, most    *)
(* recent first; if every upstream fails the list is empty.                *)
(***************************************************************************)
C1_PartialFailureIsolated ==
    \A r \in Requests :
        (Answered(r) /\ RefreshedRss(r) /\ RefreshedReddit(r)) =>
            /\ req[r].response.status = 200
            /\ req[r].response.body.ok
            /\ Range(ItemsOf(r)) \subseteq LiveItems(r)
            /\ LinksOf(ItemsOf(r)) = {x.link : x \in LiveItems(r)}
            /\ Cardinality(LinksOf(ItemsOf(r))) = Len(ItemsOf(r))
            /\ \A i \in 1..(Len(ItemsOf(r)) - 1) :
                   ItemsOf(r)[i].publishedAt >= ItemsOf(r)[i + 1].publishedAt
            /\ (FailedBranches(r) = 1..Len(BranchesOf(r)) => ItemsOf(r) = <<>>)

\* a refreshing request with a failed feed and a failed community was
\* answered with the items of the others
C1_Witness ==
    \E r \in Requests :
        /\ Answered(r) /\ RefreshedRss(r) /\ RefreshedReddit(r)
        /\ req[r].feedFailed = {1} /\ req[r].subFailed = {2}
        /\ Len(req[r].feeds) = 2 /\ Len(req[r].subs) = 2
        /\ Len(ItemsOf(r)) >= 2

(***************************************************************************)
(* C2.  No two items of a successful response have the same link.          *)
(***************************************************************************)
C2_LinksUnique ==
    \A r \in Requests :
        Succeeded(r) =>
            \A i, j \in 1..Len(ItemsOf(r)) :
                ItemsOf(r)[i].link = ItemsOf(r)[j].link => i = j

\* a response computed from per-source results that held the same link twice
C2_Witness ==
    \E r \in Requests :
        /\ Succeeded(r)
        /\ LET merged == req[r].rss.value \o req[r].reddit.value
           IN \E i, j \in 1..Len(merged) : i # j /\ merged[i].link = merged[j].link
        /\ Len(ItemsOf(r)) >= 2

(***************************************************************************)
(* C3.  The items of a successful response are in descending order of      *)
(* publishedAt: each is at least as recent as the next.                    *)
(***************************************************************************)
C3_MostRecentFirst ==
    \A r \in Requests :
        Succeeded(r) =>
            \A i \in 1..(Len(ItemsOf(r)) - 1) :
                ItemsOf(r)[i].publishedAt >= ItemsOf(r)[i + 1].publishedAt

\* a response of three or more items whose per-source results, put end to
\* end, were not in that order
C3_Witness ==
    \E r \in Requests :
        /\ Succeeded(r)
        /\ Len(ItemsOf(r)) >= 3
        /\ LET merged == req[r].rss.value \o req[r].reddit.value
           IN \E i \in 1..(Len(merged) - 1) :
                  merged[i].publishedAt < merged[i + 1].publishedAt

(***************************************************************************)
(* C4.  When two upstreams of a refreshing request return items with the   *)
(* same link and different source labels, the response has exactly one     *)
(* item with that link, and it is the first such item of the upstream      *)
(* declared first: the feeds in the order of RSS_FEED_URLS, then the       *)
(* communities in the order of SUBREDDITS.                                 *)
(***************************************************************************)
FirstWithLink(items, link) ==
    items[CHOOSE i \in 1..Len(items) :
              items[i].link = link /\ \A j \in 1..(i - 1) : items[j].link # link]

C4_FirstDeclaredSourceWins ==
    \A r \in Requests :
        (Succeeded(r) /\ RefreshedRss(r) /\ RefreshedReddit(r)) =>
            \A b1, b2 \in 1..Len(BranchesOf(r)) :
                \A x \in Range(BranchesOf(r)[b1].value), y \in Range(BranchesOf(r)[b2].value) :
                    (b1 < b2 /\ x.link = y.link /\ x.source # y.source) =>
                        LET first == CHOOSE b \in 1..Len(BranchesOf(r)) :
                                        /\ x.link \in LinksOf(BranchesOf(r)[b].value)
                                        /\ \A c \in 1..(b - 1) :
                                               x.link \notin LinksOf(BranchesOf(r)[c].value)
                            kept == {i \in 1..Len(ItemsOf(r)) : ItemsOf(r)[i].link = x.link}
                        IN /\ Cardinality(kept) = 1
                           /\ \A i \in kept :
                                  ItemsOf(r)[i] = FirstWithLink(BranchesOf(r)[first].value, x.link)

\* the same link came from the second feed and from both communities, the
\* first feed having failed, and the response attributes it to the feed
C4_Witness ==
    \E r \in Requests :
        /\ Succeeded(r) /\ RefreshedRss(r) /\ RefreshedReddit(r)
        /\ Len(req[r].feeds) = 2 /\ Len(req[r].subs) = 2
        /\ req[r].feedFailed = {1}
        /\ LinkA \in LinksOf(req[r].feeds[2].value)
        /\ LinkA \in LinksOf(req[r].subs[1].value)
        /\ LinkA \in LinksOf(req[r].subs[2].value)
        /\ \E i \in 1..Len(ItemsOf(r)) :
               ItemsOf(r)[i].link = LinkA /\ ItemsOf(r)[i].source = "www.bbc.co.uk"

(***************************************************************************)
(* The caches as a call finds them.                                        *)
(***************************************************************************)
\* the step in which request r arrives
Arrives(r) == req[r].pc = "idle" /\ req'[r].pc # "idle"

\* the time since the entry was stored
Age(cache) == now - (cache.expiresAt - CACHE_TTL_MS)

\* the call of the step fetches: it starts one fetch per upstream
Fetches(branches, n) ==
    Len(branches) = n /\ \A i \in 1..n : branches[i].state = "pending"

\* the call of the step is served from the cache: it starts no fetch,
\* returns the stored data and leaves the entry as it is
Served(cache, cacheAfter, branches, promise) ==
    /\ branches = <<>>
    /\ promise = [state |-> "fulfilled", value |-> cache.data]
    /\ cacheAfter = cache

(***************************************************************************)
(* C5.  A call of getNews or getRedditNews made while the stored result is *)
(* less than five minutes old starts no upstream fetch and returns the     *)
(* stored result; a call made when it is more than five minutes old        *)
(* fetches every upstream again.                                           *)
(***************************************************************************)
C5_OneFetchPerWindow ==
    [][\A r \in Requests :
          Arrives(r) =>
              /\ (rssCache # Null /\ Age(rssCache) < 5 * 60 * 1000) =>
                     Served(rssCache, rssCache', req'[r].feeds, req'[r].rss)
              /\ (rssCache # Null /\ Age(rssCache) > 5 * 60 * 1000) =>
                     Fetches(req'[r].feeds, Len(RSS_FEED_URLS))
              /\ (redditCache # Null /\ Age(redditCache) < 5 * 60 * 1000) =>
                     Served(redditCache, redditCache', req'[r].subs, req'[r].reddit)
              /\ (redditCache # Null /\ Age(redditCache) > 5 * 60 * 1000) =>
                     Fetches(req'[r].subs, Len(SUBREDDITS))]_vars

\* with one request at a time: a request was served the Reddit result from
\* the cache and is fetching the feeds a second time, the stored RSS result
\* being more than five minutes old
C5_Witness ==
    /\ deploy.slots = 1
    /\ \E r \in Requests :
        /\ req[r].pc = "awaiting"
        /\ Fetches(req[r].feeds, Len(RSS_FEED_URLS))
        /\ rssCache # Null /\ Age(rssCache) > 5 * 60 * 1000
        /\ req[r].subs = <<>>
        /\ redditCache # Null
        /\ req[r].reddit = [state |-> "fulfilled", value |-> redditCache.data]

(***************************************************************************)
(* C6.  A call of getNews or getRedditNews fetches the upstreams if and    *)
(* only if no result is stored or the stored result is at least five       *)
(* minutes old; otherwise, and so only at an age strictly below five       *)
(* minutes, it returns the stored result and fetches nothing.              *)
(***************************************************************************)
C6_FetchIffAbsentOrExpired ==
    [][\A r \in Requests :
          Arrives(r) =>
              /\ IF rssCache = Null \/ Age(rssCache) >= 5 * 60 * 1000
                 THEN Fetches(req'[r].feeds, Len(RSS_FEED_URLS))
                 ELSE Served(rssCache, rssCache', req'[r].feeds, req'[r].rss)
              /\ IF redditCache = Null \/ Age(redditCache) >= 5 * 60 * 1000
                 THEN Fetches(req'[r].subs, Len(SUBREDDITS))
                 ELSE Served(redditCache, redditCache', req'[r].subs, req'[r].reddit)]_vars

\* C6 as the specification states it: the upstreams are fetched if and only
\* if no result is stored or its age strictly exceeds five minutes, so that
\* at an age of exactly five minutes the stored result is returned
C6_AsStated ==
    [][\A r \in Requests :
          Arrives(r) =>
              /\ IF rssCache = Null \/ Age(rssCache) > 5 * 60 * 1000
                 THEN Fetches(req'[r].feeds, Len(RSS_FEED_URLS))
                 ELSE Served(rssCache, rssCache', req'[r].feeds, req'[r].rss)
              /\ IF redditCache = Null \/ Age(redditCache) > 5 * 60 * 1000
                 THEN Fetches(req'[r].subs, Len(SUBREDDITS))
                 ELSE Served(redditCache, redditCache', req'[r].subs, req'[r].reddit)]_vars

\* with one request at a time: a request is fetching the feeds while the
\* stored RSS result is exactly five minutes old
C6_Witness ==
    /\ deploy.slots = 1
    /\ \E r \in Requests :
        /\ req[r].pc = "awaiting"
        /\ Fetches(req[r].feeds, Len(RSS_FEED_URLS))
        /\ rssCache # Null /\ Age(rssCache) = 5 * 60 * 1000

(***************************************************************************)
(* C7.  The fan-outs are joins: getNews, getRedditNews and the route       *)
(* settle only when every one of their branches has, and a branch that     *)
(* fails takes nothing from the others: the items of every branch are in   *)
(* the source's result, and those of both sources in the response.         *)
(***************************************************************************)
C7_JoinAll ==
    \A r \in Requests :
        req[r].pc # "idle" =>
            /\ req[r].rss.state # "pending" =>
                   \A f \in DOMAIN req[r].feeds :
                       /\ req[r].feeds[f].state = "fulfilled"
                       /\ LinksOf(req[r].feeds[f].value) \subseteq LinksOf(req[r].rss.value)
            /\ req[r].reddit.state # "pending" =>
                   \A n \in DOMAIN req[r].subs :
                       /\ req[r].subs[n].state = "fulfilled"
                       /\ LinksOf(req[r].subs[n].value) \subseteq LinksOf(req[r].reddit.value)
            /\ req[r].response # Null =>
                   /\ req[r].rss.state = "fulfilled"
                   /\ req[r].reddit.state = "fulfilled"
                   /\ req[r].response.status = 200
                   /\ LinksOf(req[r].rss.value) \cup LinksOf(req[r].reddit.value)
                          \subseteq LinksOf(ItemsOf(r))
            /\ req[r].response = Null <=> req[r].pc = "awaiting"

\* the first feed and the first community failed, and the items of the
\* second feed and of the second community are in the response
C7_Witness ==
    \E r \in Requests :
        /\ Answered(r)
        /\ Len(req[r].feeds) = 2 /\ Len(req[r].subs) = 2
        /\ req[r].feedFailed = {1} /\ req[r].subFailed = {1}
        /\ req[r].feeds[2].value # <<>> /\ req[r].subs[2].value # <<>>
        /\ LinksOf(req[r].feeds[2].value) \cup LinksOf(req[r].subs[2].value)
               \subseteq LinksOf(ItemsOf(r))

(***************************************************************************)
(* C8 as the specification states it, on texts without markup or white     *)
(* space: a summary text of more than 500 characters is stored as exactly  *)
(* 500 characters of which the last is the ellipsis, and a text of at most *)
(* 500 characters is stored unchanged.                                     *)
(***************************************************************************)
\* the text the upstream supplied as the summary of the probed item or post
UpstreamText(p) ==
    IF p.op = "normaliseItem"
    THEN IF Has(p.input, "contentSnippet") THEN p.input.contentSnippet ELSE p.input.content
    ELSE p.input.selftext

HasUpstreamText(p) ==
    /\ p.op \in {"normaliseItem", "normalisePost"}
    /\ IF p.op = "normaliseItem"
       THEN Has(p.input, "contentSnippet") # Has(p.input, "content")
       ELSE Has(p.input, "selftext")
    /\ Has(p.output, "summary")

PlainText(text) ==
    \A i \in 1..Len(text) : SubSeq(text, i, i) \notin {" ", "\t", "\n", "\r", "<", ">"}

C8_AsStated ==
    (probe # Null /\ HasUpstreamText(probe) /\ PlainText(UpstreamText(probe))) =>
        LET text == UpstreamText(probe)
            stored == probe.output.summary
        IN IF Len(text) > 500
           THEN Len(stored) = 500 /\ SubSeq(stored, 500, 500) = Ellipsis
           ELSE stored = text

(***************************************************************************)
(* C9.  No item without a link is kept: every item of a feed's result, of  *)
(* the two caches and of a successful response has a link that is not      *)
(* empty, and the upstream RSS items whose link is absent or blank are in  *)
(* none of them.                                                           *)
(***************************************************************************)
Blank(text) == \A i \in 1..Len(text) : SubSeq(text, i, i) \in {" ", "\t", "\n", "\r"}

\* the titles of the RSS items of the menus that have no link
LinklessTitles ==
    UNION {UNION {{d.items[i].title :
                     i \in {j \in 1..Len(d.items) :
                              "link" \notin DOMAIN d.items[j] \/ Blank(d.items[j].link)}} :
                    d \in FeedDocs(f)} : f \in 1..2}

\* every item the program holds: in the settled branches, the settled
\* source results, the caches and the responses
HeldItems ==
    UNION {UNION {Range(b.value) :
                    b \in {c \in Range(req[r].feeds) \cup Range(req[r].subs)
                                   \cup {req[r].rss, req[r].reddit} :
                             c.state = "fulfilled"}} :
             r \in {q \in Requests : req[q].pc # "idle"}}
      \cup UNION {Range(ItemsOf(r)) : r \in {q \in Requests : Succeeded(q)}}
      \cup (IF rssCache = Null THEN {} ELSE Range(rssCache.data))
      \cup (IF redditCache = Null THEN {} ELSE Range(redditCache.data))

C9_NoLinklessItems ==
    \A x \in HeldItems :
        /\ x.link # ""
        /\ ~Blank(x.link)
        /\ x.title \notin LinklessTitles

\* both feeds were parsed, the first with an item that has no link and the
\* second with one whose link is blank, and their other items are cached
\* and in the response
C9_Witness ==
    \E r \in Requests :
        /\ Succeeded(r) /\ RefreshedRss(r)
        /\ Len(req[r].feeds) = 2 /\ req[r].feedFailed = {}
        /\ LinkC \in LinksOf(req[r].feeds[2].value)
        /\ Len(req[r].feeds[1].value) = 2 /\ Len(req[r].feeds[2].value) = 2
        /\ rssCache # Null /\ rssCache.data = req[r].rss.value
        /\ {LinkA, LinkB, LinkC} \subseteq LinksOf(ItemsOf(r))

(***************************************************************************)
(* C10.  makeId is a function of the link: two calls with the same link    *)
(* return the same id and, over the links of the model, two calls with     *)
(* different links return different ids; and every item normaliseItem or   *)
(* normalisePost returns has the id makeId returns for its link.           *)
(***************************************************************************)
C10_IdOfLink ==
    probe # Null =>
        /\ probe.op = "makeId" =>
               \A i, j \in 1..Len(probe.calls) :
                   (probe.calls[i].link = probe.calls[j].link)
                       <=> (probe.calls[i].id = probe.calls[j].id)
        /\ (probe.op \in {"normaliseItem", "normalisePost"} /\ Has(probe.output, "id")) =>
               /\ probe.output.id = makeId(probe.output.link)
               /\ Len(probe.output.id) = 16

\* makeId was called with two links whose digests begin with the same
\* digit and returned two ids
C10_Witness ==
    /\ probe # Null /\ probe.op = "makeId" /\ Len(probe.calls) = 2
    /\ probe.calls[1].link = LinkC /\ probe.calls[2].link = LinkD
    /\ SubSeq(probe.calls[1].id, 1, 1) = SubSeq(probe.calls[2].id, 1, 1)
    /\ probe.calls[1].id # probe.calls[2].id

(***************************************************************************)
(* C11.  GET answers in one of two shapes: when both sources are           *)
(* fulfilled, status 200 with ok = true, the items of the two sources one  *)
(* per link, and count their number; when a source is rejected, status 500 *)
(* with ok = false and the same error string whatever was thrown.          *)
(***************************************************************************)
C11_TwoShapes ==
    (probe # Null /\ probe.op = "GET") =>
        LET rss == probe.input[1]
            reddit == probe.input[2]
            out == probe.output
        IN IF rss.state = "fulfilled" /\ reddit.state = "fulfilled"
           THEN /\ out.status = 200
                /\ DOMAIN out.body = {"ok", "count", "items"}
                /\ out.body.ok = TRUE
                /\ out.body.count = Len(out.body.items)
                /\ Range(out.body.items) \subseteq Range(rss.value) \cup Range(reddit.value)
                /\ LinksOf(out.body.items) = LinksOf(rss.value) \cup LinksOf(reddit.value)
                /\ Cardinality(LinksOf(out.body.items)) = Len(out.body.items)
           ELSE /\ out.status = 500
                /\ out.body = [ok |-> FALSE, error |-> "Failed to fetch news feeds"]

\* GET caught an error thrown with a message of its own and answered 500
C11_Witness ==
    /\ probe # Null /\ probe.op = "GET"
    /\ probe.input[1] = [state |-> "rejected", reason |-> "RangeError: Invalid time value"]
    /\ probe.input[2].state = "fulfilled" /\ probe.input[2].value # <<>>
    /\ probe.output.status = 500

(***************************************************************************)
(* C12.  Only the per-source calls write the caches, and GET writes        *)
(* neither: a cache changes only in a step in which a request's getNews    *)
(* (getRedditNews) settles, and then holds what that call returned, the    *)
(* RSS items (the Reddit items in the order of the listings); a step that  *)
(* answers a request computes the response from what the two calls of      *)
(* that request returned and leaves in the caches what those calls left.   *)
(***************************************************************************)
RECURSIVE EndToEnd(_)
EndToEnd(branches) ==
    IF branches = <<>> THEN <<>>
    ELSE branches[1].value \o EndToEnd(SubSeq(branches, 2, Len(branches)))

C12_MergeLeavesCaches ==
    [][/\ rssCache' # rssCache =>
              \E r \in Requests :
                  /\ req[r].pc = "awaiting" /\ req[r].rss.state = "pending"
                  /\ req'[r].rss.state = "fulfilled"
                  /\ rssCache'.data = req'[r].rss.value
                  /\ Range(rssCache'.data) \subseteq Range(EndToEnd(req'[r].feeds))
       /\ redditCache' # redditCache =>
              \E r \in Requests :
                  /\ req[r].pc = "awaiting" /\ req[r].reddit.state = "pending"
                  /\ req'[r].reddit.state = "fulfilled"
                  /\ redditCache'.data = req'[r].reddit.value
                  /\ redditCache'.data = EndToEnd(req'[r].subs)
       /\ \A r \in Requests :
              ((req[r].pc = "idle" \/ req[r].response = Null)
                   /\ req'[r].pc = "done" /\ req'[r].response.status = 200) =>
                  LET items == req'[r].response.body.items
                  IN /\ Range(items) \subseteq
                            Range(req'[r].rss.value) \cup Range(req'[r].reddit.value)
                     /\ LinksOf(items) =
                            LinksOf(req'[r].rss.value) \cup LinksOf(req'[r].reddit.value)
                     /\ rssCache' = rssCache \/ rssCache'.data = req'[r].rss.value
                     /\ redditCache' = redditCache
                            \/ redditCache'.data = req'[r].reddit.value]_vars

\* a request was answered from both caches: the Reddit cache still holds
\* its items in the order of the listing, which is not the order of the
\* response, and the RSS cache holds fewer items than the response
C12_Witness ==
    \E r \in Requests :
        /\ Succeeded(r)
        /\ req[r].feeds = <<>> /\ req[r].subs = <<>>
        /\ rssCache # Null /\ rssCache.data = req[r].rss.value
        /\ redditCache # Null /\ redditCache.data = req[r].reddit.value
        /\ \E i \in 1..(Len(redditCache.data) - 1) :
               redditCache.data[i].publishedAt < redditCache.data[i + 1].publishedAt
        /\ Len(rssCache.data) < Len(ItemsOf(r))

(***************************************************************************)
(* C13.  A Reddit post that is stickied, or whose title is absent or       *)
(* blank, is in no result of a community fetch, not in the Reddit cache    *)
(* and in no response: no Reddit item held has a blank title, and none is  *)
(* the item of such a post of the listings.                                *)
(***************************************************************************)
FromReddit(x) == Len(x.source) >= 2 /\ SubSeq(x.source, 1, 2) = "r/"

\* the posts of the listings that are stickied or have no title
UnwantedPosts ==
    UNION {UNION {{l.data.children[i].data :
                     i \in {j \in 1..Len(l.data.children) :
                              LET d == l.data.children[j].data
                              IN \/ ("stickied" \in DOMAIN d /\ d.stickied)
                                 \/ "title" \notin DOMAIN d
                                 \/ Blank(d.title)}} :
                    l \in SubListings(n)} : n \in 1..2}

C13_NoStickiedNoUntitled ==
    \A x \in HeldItems :
        FromReddit(x) =>
            /\ ~Blank(x.title)
            /\ \A d \in UnwantedPosts :
                   ~(x.source = "r/" \o d.subreddit /\ x.link = d.url)

\* both listings were fetched, each with a post that is not wanted, and
\* the two other posts of each are cached; Reddit items are in the response
C13_Witness ==
    /\ Cardinality(UnwantedPosts) = 2
    /\ \E r \in Requests :
        /\ Succeeded(r) /\ RefreshedReddit(r)
        /\ Len(req[r].subs) = 2 /\ req[r].subFailed = {}
        /\ Len(req[r].subs[1].value) = 2 /\ Len(req[r].subs[2].value) = 2
        /\ redditCache # Null /\ redditCache.data = req[r].reddit.value
        /\ \E i \in 1..Len(ItemsOf(r)) : FromReddit(ItemsOf(r)[i])

(***************************************************************************)
(* C14 as the specification states it: the link of a kept link post is its *)
(* url and that of a kept self post is its permalink on www.reddit.com,    *)
(* and a post for which that does not resolve (a link post without url, a  *)
(* self post without permalink) is dropped: normalisePost returns no item  *)
(* for it.                                                                 *)
(***************************************************************************)
SelfPost(d) == "is_self" \in DOMAIN d /\ d.is_self

LinkResolves(d) ==
    IF SelfPost(d) THEN "permalink" \in DOMAIN d /\ d.permalink # ""
    ELSE "url" \in DOMAIN d /\ d.url # ""

C14_AsStated ==
    (probe # Null /\ probe.op = "normalisePost") =>
        LET d == probe.input
            kept == "link" \in DOMAIN probe.output
        IN /\ ~LinkResolves(d) => ~kept
           /\ (kept /\ LinkResolves(d)) =>
                  probe.output.link = IF SelfPost(d)
                                      THEN "https://www.reddit.com" \o d.permalink
                                      ELSE d.url

(***************************************************************************)
(* C15.  Every item held, in the results of the sources, the caches and    *)
(* the responses, has a title that is not empty, and the item of an RSS    *)
(* record that has a link and no title has the placeholder as its title.   *)
(***************************************************************************)
\* the source label and the link of the RSS records of the menus that
\* have a link and no title
UntitledRecords ==
    UNION {UNION {{[source |-> extractSource(d).source, link |-> Trim(d.items[i].link)] :
                     i \in {j \in 1..Len(d.items) :
                              /\ "link" \in DOMAIN d.items[j] /\ ~Blank(d.items[j].link)
                              /\ ("title" \notin DOMAIN d.items[j] \/ Blank(d.items[j].title))}} :
                    d \in FeedDocs(f)} : f \in 1..2}

C15_TitleNeverEmpty ==
    \A x \in HeldItems :
        /\ x.title # ""
        /\ ~Blank(x.title)
        /\ [source |-> x.source, link |-> x.link] \in UntitledRecords => x.title = "(no title)"

\* the item of the record without title is in the RSS cache and in a
\* response, with the placeholder, beside a Reddit item
C15_Witness ==
    /\ UntitledRecords = {[source |-> "NYT", link |-> LinkB]}
    /\ \E r \in Requests :
        /\ Succeeded(r)
        /\ rssCache # Null
        /\ \E i \in 1..Len(rssCache.data) :
               rssCache.data[i].link = LinkB /\ rssCache.data[i].title = "(no title)"
        /\ \E i \in 1..Len(ItemsOf(r)) :
               /\ ItemsOf(r)[i].link = LinkB
               /\ ItemsOf(r)[i].source = "NYT"
               /\ ItemsOf(r)[i].title = "(no title)"
        /\ \E i \in 1..Len(ItemsOf(r)) : FromReddit(ItemsOf(r)[i])

(***************************************************************************)
(* C16.  A malformed upstream record is dropped by its fetcher and is in   *)
(* nothing the program holds: an RSS record whose link is absent or        *)
(* blank, a Reddit post whose title is absent or blank, a Reddit link post *)
(* without url.  An RSS record that has a link and no title is not         *)
(* dropped: its item, with the placeholder title, is in the result of      *)
(* every successful fetch of its feed.                                     *)
(***************************************************************************)
\* the posts of the listings without title, and the link posts without url
MalformedPosts ==
    UNION {UNION {{l.data.children[i].data :
                     i \in {j \in 1..Len(l.data.children) :
                              LET d == l.data.children[j].data
                              IN \/ "title" \notin DOMAIN d
                                 \/ Blank(d.title)
                                 \/ (~SelfPost(d) /\ ("url" \notin DOMAIN d \/ d.url = ""))}} :
                    l \in SubListings(n)} : n \in 1..2}

\* x is the item the post d would give
ItemOfPost(x, d) ==
    /\ x.source = "r/" \o d.subreddit
    /\ \/ ("title" \in DOMAIN d /\ ~Blank(d.title) /\ x.title = d.title)
       \/ ("url" \in DOMAIN d /\ d.url # "" /\ x.link = d.url)

LinklessDropped ==
    \A x \in HeldItems :
        /\ ~FromReddit(x) => x.title \notin LinklessTitles
        /\ FromReddit(x) => \A d \in MalformedPosts : ~ItemOfPost(x, d)

HasText(body, k) ==
    /\ body # Null
    /\ body.t = "object"
    /\ k \in DOMAIN body.fields
    /\ body.fields[k].t = "string"
    /\ Trim(body.fields[k].v) # ""

\* the field k of a body as the handlers pass it on
TextOf(body, k) ==
    IF HasText(body, k) THEN Trim(body.fields[k].v) ELSE ""

ContentOf(responseBody) ==
    [bullets |-> responseBody.bullets, steps |-> responseBody.steps,
     exercises |-> responseBody.exercises]

IsItem(x) == x # Null /\ x # Threw

\* the links of the records of a listing (of a feed) that are well formed:
\* normalised on their own they give an item
WellFormedPostLinks(posts, at) ==
    {normalisePost(posts[i], at).link :
        i \in {j \in 1..Len(posts) : IsItem(normalisePost(posts[j], at))}}
WellFormedItemLinks(items, at) ==
    {normaliseItem(items[i], "any", at).link :
        i \in {j \in 1..Len(items) : IsItem(normaliseItem(items[j], "any", at))}}

C19_AsStated ==
    probe # Null =>
        /\ probe.op = "fetchSubreddit" =>
              /\ probe.output.state = "fulfilled"
              /\ WellFormedPostLinks(probe.input, probe.at) \subseteq LinksOf(probe.output.value)
        /\ probe.op = "fetchFeed" =>
              /\ probe.output.state = "fulfilled"
              /\ WellFormedItemLinks(probe.input.items, probe.at)
                    \subseteq LinksOf(probe.output.value)

(***************************************************************************)
(* C20.  As stated: provided every network call answers or hits its 10 s   *)
(* timeout, every aggregate request eventually produces its response (200  *)
(* or 500), whatever the upstreams do, an upstream that answers every      *)
(* request with a 3xx and a Location included.                             *)
(***************************************************************************)
C20_AsStated ==
    \A r \in 1..LiveDeployment.slots :
        (req[r].pc = "awaiting")
            ~> (req[r].pc = "done" /\ req[r].response.status \in {200, 500})

(***************************************************************************)
(* C21.  Overlapping calls to one per-source cache.  A call that finds the *)
(* slot empty or expired starts its own fetch of every upstream, whatever  *)
(* other calls are in flight; a slot is written only by a refresh that     *)
(* completes, and then holds the complete result of that refresh with the  *)
(* expiry of that refresh (its completion time plus the TTL), whatever the *)
(* slot held before: the last refresh to finish wins, and a slot never     *)
(* holds a mix of two refreshes.                                           *)
(***************************************************************************)
\* the results of the settled fetches of a refresh, in the declared order
ValuesOf(branches) == [i \in 1..Len(branches) |-> branches[i].value]

\* request r starts in this step
Starts(r) == req[r].pc = "idle" /\ req'[r].pc # "idle"

C21_LastWriteWins ==
    [][/\ \A r \in Requests :
             Starts(r) =>
                /\ ~CacheValid(rssCache, now) =>
                      /\ Len(req'[r].feeds) = Len(RSS_FEED_URLS)
                      /\ \A f \in 1..Len(RSS_FEED_URLS) : req'[r].feeds[f].state = "pending"
                /\ ~CacheValid(redditCache, now) =>
                      /\ Len(req'[r].subs) = Len(SUBREDDITS)
                      /\ \A n \in 1..Len(SUBREDDITS) : req'[r].subs[n].state = "pending"
       /\ rssCache' # rssCache =>
             \E r \in Requests :
                /\ req[r].pc # "idle" /\ req[r].rss.state = "pending"
                /\ req'[r].rss.state = "fulfilled"
                /\ \A f \in 1..Len(RSS_FEED_URLS) : req'[r].feeds[f].state = "fulfilled"
                /\ rssCache' =
                      CacheEntry(SortByPublishedAt(
                                     DedupByLink(Flat(ValuesOf(req'[r].feeds)), {})),
                                 now + CACHE_TTL_MS)
                /\ req'[r].rss.value = rssCache'.data
       /\ redditCache' # redditCache =>
             \E r \in Requests :
                /\ req[r].pc # "idle" /\ req[r].reddit.state = "pending"
                /\ req'[r].reddit.state = "fulfilled"
                /\ \A n \in 1..Len(SUBREDDITS) : req'[r].subs[n].state = "fulfilled"
                /\ redditCache' = CacheEntry(Flat(ValuesOf(req'[r].subs)),
                                             now + CACHE_TTL_MS)
                /\ req'[r].reddit.value = redditCache'.data
      ]_vars

\* two refreshes of the feeds overlapped and gave different results: the
\* first to finish was stored, the second then replaced it, expiry included
C21_Witness ==
    \E r1, r2 \in Requests :
        /\ r1 # r2
        /\ RefreshedRss(r1) /\ RefreshedRss(r2)
        /\ RefreshedReddit(r1) /\ RefreshedReddit(r2)
        /\ req[r1].pc = "done" /\ req[r2].pc = "done"
        /\ req[r1].rss.value # req[r2].rss.value
        /\ rssCache = CacheEntry(req[r2].rss.value, now + CACHE_TTL_MS)
        /\ redditCache.expiresAt < rssCache.expiresAt
        /\ now < redditCache.expiresAt

(***************************************************************************)
(* C22.  The aggregate result does not depend on the order in which the    *)
(* concurrent fetches complete.  The items of a response computed from     *)
(* fetched feeds and communities are a function of the per-feed and        *)
(* per-community results taken in the declared order, and two requests     *)
(* that fetched the same per-upstream results are answered with the same   *)
(* items in the same order, whichever of their fetches completed first.    *)
(***************************************************************************)
\* the steps of getNews, getRedditNews and GET applied to the results of the
\* feeds and of the communities
Pipeline(feedValues, subValues) ==
    SortByPublishedAt(
        DedupByLink(SortByPublishedAt(DedupByLink(Flat(feedValues), {}))
                      \o Flat(subValues), {}))

RefreshedBoth(r) == Answered(r) /\ RefreshedRss(r) /\ RefreshedReddit(r)

C22_CompletionOrderIrrelevant ==
    /\ \A r \in Requests :
          RefreshedBoth(r) =>
             /\ req[r].response.status = 200
             /\ ItemsOf(r) = Pipeline(ValuesOf(req[r].feeds), ValuesOf(req[r].subs))
    /\ \A r1, r2 \in Requests :
          (/\ RefreshedBoth(r1) /\ RefreshedBoth(r2)
           /\ ValuesOf(req[r1].feeds) = ValuesOf(req[r2].feeds)
           /\ ValuesOf(req[r1].subs) = ValuesOf(req[r2].subs))
             => req[r1].response = req[r2].response

\* the communities of a request completed before its feeds (the Reddit slot
\* expires first), a link came from a feed and from a community, and the
\* item of the feed is the one in the response
C22_Witness ==
    /\ deploy.slots = 1
    /\ RefreshedBoth(1)
    /\ req[1].feedFailed = {} /\ req[1].subFailed = {}
    /\ redditCache.expiresAt < rssCache.expiresAt
    /\ \E x \in Range(req[1].rss.value), y \in Range(req[1].reddit.value) :
          /\ x.link = y.link
          /\ x \in Range(ItemsOf(1))
          /\ y \notin Range(ItemsOf(1))

(***************************************************************************)
(* C23.  The items of a response are those of the reference pipeline       *)
(* applied to the same per-source data: the items of the feeds in declared *)
(* order, then those of the communities in declared order, each source in  *)
(* upstream order; of each link the first occurrence; then sorted by       *)
(* publishedAt, most recent first, items of equal time in the order of the *)
(* concatenation.  The deduplication and sort that getNews applies before  *)
(* it stores and returns the RSS items change neither the survivors nor    *)
(* the order.                                                              *)
(***************************************************************************)
\* the items whose link occurs at no earlier index
KeepFirst(items) ==
    LET kept == {i \in 1..Len(items) : \A j \in 1..(i - 1) : items[j].link # items[i].link}
        nth(k) == CHOOSE i \in kept : Cardinality({j \in kept : j < i}) = k - 1
    IN [k \in 1..Cardinality(kept) |-> items[nth(k)]]

\* the stable descending sort, by rank: an item comes after the items that
\* are more recent and after the earlier items of the same time
StableDescending(items) ==
    LET before(i) == {j \in 1..Len(items) :
                        \/ items[j].publishedAt > items[i].publishedAt
                        \/ items[j].publishedAt = items[i].publishedAt /\ j < i}
    IN [k \in 1..Len(items) |->
           items[CHOOSE i \in 1..Len(items) : Cardinality(before(i)) = k - 1]]

Reference(concatenated) == StableDescending(KeepFirst(concatenated))

C23_EqualsReference ==
    \A r \in Requests :
        (Succeeded(r) /\ RefreshedRss(r)) =>
            ItemsOf(r) = Reference(Flat(ValuesOf(req[r].feeds)) \o req[r].reddit.value)

\* a response whose sources held a link in two feeds and in a community, and
\* two RSS items of the same time that are both in the response
C23_Witness ==
    \E r \in Requests :
        /\ Succeeded(r) /\ RefreshedRss(r) /\ RefreshedReddit(r)
        /\ LET rss == Flat(ValuesOf(req[r].feeds))
               reddit == req[r].reddit.value
           IN /\ \E i, j \in 1..Len(rss) : i < j /\ rss[i].link = rss[j].link
              /\ \E i \in 1..Len(rss), j \in 1..Len(reddit) : rss[i].link = reddit[j].link
              /\ \E i, j \in 1..Len(rss) :
                    /\ i < j /\ rss[i].link # rss[j].link
                    /\ rss[i].publishedAt = rss[j].publishedAt
                    /\ rss[i] \in Range(ItemsOf(r)) /\ rss[j] \in Range(ItemsOf(r))

(***************************************************************************)
(* C24.  The RSS slot and the Reddit slot are independent.  A call is      *)
(* served from a slot exactly when that slot is valid, whatever the other  *)
(* slot holds; starting a request and the passing of time change neither   *)
(* slot; a slot changes only in a step in which a fetch of its own source  *)
(* settles, and that step leaves the other slot as it was.                 *)
(***************************************************************************)
FeedSettled(r) ==
    /\ req[r].pc # "idle" /\ req'[r].pc # "idle"
    /\ \E f \in 1..Len(req[r].feeds) :
          req[r].feeds[f].state = "pending" /\ req'[r].feeds[f].state = "fulfilled"
SubSettled(r) ==
    /\ req[r].pc # "idle" /\ req'[r].pc # "idle"
    /\ \E n \in 1..Len(req[r].subs) :
          req[r].subs[n].state = "pending" /\ req'[r].subs[n].state = "fulfilled"

C24_SlotsIndependent ==
    [][/\ \A r \in Requests :
             Starts(r) =>
                /\ rssCache' = rssCache /\ redditCache' = redditCache
                /\ (req'[r].feeds = <<>>) <=> CacheValid(rssCache, now)
                /\ (req'[r].subs = <<>>) <=> CacheValid(redditCache, now)
                /\ CacheValid(rssCache, now) => req'[r].rss = Fulfilled(rssCache.data)
                /\ CacheValid(redditCache, now) => req'[r].reddit = Fulfilled(redditCache.data)
       /\ now' # now => rssCache' = rssCache /\ redditCache' = redditCache
       /\ rssCache' # rssCache =>
             /\ redditCache' = redditCache
             /\ \E r \in Requests : FeedSettled(r)
       /\ redditCache' # redditCache =>
             /\ rssCache' = rssCache
             /\ \E r \in Requests : SubSettled(r)
      ]_vars

\* a request served its RSS items from the slot and fetched the communities
\* again: the Reddit slot had expired, the RSS slot had not
C24_Witness ==
    \E r \in Requests :
        /\ Succeeded(r)
        /\ ~RefreshedRss(r) /\ RefreshedReddit(r)
        /\ req[r].rss.value = rssCache.data
        /\ rssCache.expiresAt < redditCache.expiresAt
        /\ redditCache.expiresAt = now + CACHE_TTL_MS

(***************************************************************************)
(* C25.  A refresh in which upstreams failed is stored like a successful   *)
(* one: when it completes, the slot of its source holds its partial        *)
(* (possibly empty) result, which has no item of a failed upstream, with   *)
(* the full TTL; and a call that finds a slot still valid is served the    *)
(* stored result and fetches no upstream of that source again.             *)
(***************************************************************************)
\* the refresh of request r completes in this step
RssCompletes(r) ==
    req[r].pc # "idle" /\ req[r].rss.state = "pending" /\ req'[r].rss.state = "fulfilled"
RedditCompletes(r) ==
    req[r].pc # "idle" /\ req[r].reddit.state = "pending"
      /\ req'[r].reddit.state = "fulfilled"

\* the items of the upstreams among `branches` that are not in `failed`
ItemsOfLive(branches, failed) ==
    UNION {Range(branches[b].value) : b \in (1..Len(branches)) \ failed}

C25_FailuresCachedFullTtl ==
    [][\A r \in Requests :
          /\ (RssCompletes(r) /\ req'[r].feedFailed # {}) =>
                /\ rssCache' = CacheEntry(req'[r].rss.value, now + CACHE_TTL_MS)
                /\ Range(req'[r].rss.value)
                      \subseteq ItemsOfLive(req'[r].feeds, req'[r].feedFailed)
          /\ (RedditCompletes(r) /\ req'[r].subFailed # {}) =>
                /\ redditCache' = CacheEntry(req'[r].reddit.value, now + CACHE_TTL_MS)
                /\ Range(req'[r].reddit.value)
                      \subseteq ItemsOfLive(req'[r].subs, req'[r].subFailed)
          /\ (Starts(r) /\ rssCache # Null /\ now < rssCache.expiresAt) =>
                /\ req'[r].feeds = <<>>
                /\ req'[r].rss = Fulfilled(rssCache.data)
          /\ (Starts(r) /\ redditCache # Null /\ now < redditCache.expiresAt) =>
                /\ req'[r].subs = <<>>
                /\ req'[r].reddit = Fulfilled(redditCache.data)
      ]_vars

\* every feed had failed: the empty result is in the slot and a request was
\* served it, without a fetch, in the last millisecond before the expiry
C25_Witness ==
    \E r \in Requests :
        /\ Succeeded(r) /\ ~RefreshedRss(r)
        /\ req[r].rss.value = <<>>
        /\ rssCache # Null /\ rssCache.data = <<>>
        /\ now = rssCache.expiresAt - 1

(***************************************************************************)
(* C26.  No two items of one aggregate result have the same id; so a       *)
(* detail request that is served the data of the listing request from both *)
(* slots finds, for the id of every listed item, exactly one item, and it  *)
(* is the item with the link of the listed one.                            *)
(***************************************************************************)
\* fetchArticle: data.items.find((i) => i.id === id), Null for undefined
Find(items, id) ==
    IF \E i \in 1..Len(items) : items[i].id = id
    THEN items[CHOOSE i \in 1..Len(items) :
                  items[i].id = id /\ \A j \in 1..(i - 1) : items[j].id # id]
    ELSE Null

\* request d is served from both slots what request l was answered from
DetailOf(d, l) ==
    /\ d # l
    /\ Succeeded(l) /\ Succeeded(d)
    /\ ~RefreshedRss(d) /\ ~RefreshedReddit(d)
    /\ req[d].rss = req[l].rss /\ req[d].reddit = req[l].reddit

C26_IdsResolve ==
    /\ \A r \in Requests :
          Succeeded(r) =>
             \A i, j \in 1..Len(ItemsOf(r)) :
                 ItemsOf(r)[i].id = ItemsOf(r)[j].id => i = j
    /\ \A l, d \in Requests :
          DetailOf(d, l) =>
             \A x \in Range(ItemsOf(l)) :
                 /\ Cardinality({i \in 1..Len(ItemsOf(d)) : ItemsOf(d)[i].id = x.id}) = 1
                 /\ Find(ItemsOf(d), x.id) # Null
                 /\ Find(ItemsOf(d), x.id).link = x.link

\* a listing of three items and a detail request served from both slots
C26_Witness ==
    \E l, d \in Requests :
        /\ DetailOf(d, l)
        /\ RefreshedRss(l) /\ RefreshedReddit(l)
        /\ Len(ItemsOf(l)) >= 3
        /\ Find(ItemsOf(d), ItemsOf(l)[3].id) = ItemsOf(l)[3]

(***************************************************************************)
(* The article page (app/article/[id]/page.tsx, ArticlePage).  The state   *)
(* of the component, the requests it has in flight and the closure of each *)
(* fetchArticle (its id and its cancelled flag).  A change of id is one    *)
(* step: the render with the new id, the cleanup of the old effect and the *)
(* run of the new one.  showAnswers is left out: nothing reads it but the  *)
(* rendering of the stored answer.                                         *)
(***************************************************************************)
\* the ids the page is opened with
ArticleIds == {"a", "b"}

ItemA == [id |-> "a", title |-> "Alpha", summary |-> "About alpha"]
ItemB == [id |-> "b", title |-> "Beta", summary |-> ""]

\* the number of requests one page sends (a bound of the model)
MaxRequests == 5

\* the exercise indexes of one practice block
ExerciseIndexes == 0..1

\* helpAnswers and helpLoading after useState({}) and after a reset
NoAnswers == [i \in ExerciseIndexes |-> Null]
NoLoading == [i \in ExerciseIndexes |-> FALSE]

\* a JavaScript string or undefined read as a condition
Truthy(value) == value # Null /\ value # JString("")

\* what fetch("/api/news") and res.json() end with
ArticleOutcomes ==
    { [kind |-> "reject", message |-> "Failed to fetch"],
      [kind |-> "status", message |-> "HTTP 500"] }
    \cup { [kind |-> "ok", items |-> l] : l \in { <<ItemA, ItemB>>, <<ItemB>> } }

\* what fetch("/api/practice") and res.json() end with
PracticeOutcomes ==
    { [kind |-> "status", message |-> "HTTP 500"],
      [kind |-> "ok", exercises |-> <<"Q1", "Q2">>],
      [kind |-> "ok", exercises |-> <<>>] }

\* what fetch("/api/help") and res.json() end with
HelpOutcomes ==
    { [kind |-> "reject", answer |-> JNull],
      [kind |-> "status", answer |-> JNull],
      [kind |-> "ok", answer |-> JNull],
      [kind |-> "ok", answer |-> JString("Because of the tides.")] }

\* the useState initial values, and the first run of the effect
Mounted(id) ==
    [ mounted |-> TRUE, id |-> id,
      item |-> Null, loading |-> TRUE, error |-> Null,
      practice |-> Null, practiceLoading |-> FALSE, practiceError |-> Null,
      helpAnswers |-> NoAnswers, helpLoading |-> NoLoading,
      fetches |-> << [id |-> id, cancelled |-> FALSE, pc |-> "pending"] >>,
      practiceCall |-> "none", helps |-> <<>>, sent |-> 1, last |-> Null ]

\* the effect of [id]: the cleanup of the previous run, then fetchArticle up
\* to its await
useEffect(pg, id) ==
    [pg EXCEPT !.id = id,
               !.fetches = Append([@ EXCEPT ![Len(@)].cancelled = TRUE],
                                  [id |-> id, cancelled |-> FALSE, pc |-> "pending"]),
               !.loading = TRUE,
               !.error = Null,
               !.sent = @ + 1]

\* fetchArticle without the cancelled flag
fetchArticleResume_NoFlag(pg, k, outcome) ==
    LET f == pg.fetches[k]
        match == IF outcome.kind = "ok" THEN Find(outcome.items, f.id) ELSE Null
        afterTry ==
            IF outcome.kind # "ok" THEN [pg EXCEPT !.error = JString(outcome.message)]
            ELSE IF match # Null THEN [pg EXCEPT !.item = match]
            ELSE [pg EXCEPT !.error = JString("Article not found")]
    IN  [afterTry EXCEPT !.loading = FALSE,
                         !.fetches[k] = [f EXCEPT !.pc = "done"] @@ [outcome |-> outcome]]

\* fetchArticle from its await on: try, catch and finally
fetchArticleResume(pg, k, outcome) ==
    LET f == pg.fetches[k]
        match == IF outcome.kind = "ok" THEN Find(outcome.items, f.id) ELSE Null
        afterTry ==
            IF f.cancelled THEN pg
            ELSE IF outcome.kind # "ok" THEN [pg EXCEPT !.error = JString(outcome.message)]
            ELSE IF match # Null THEN [pg EXCEPT !.item = match]
            ELSE [pg EXCEPT !.error = JString("Article not found")]
        afterFinally ==
            IF f.cancelled THEN afterTry ELSE [afterTry EXCEPT !.loading = FALSE]
    IN  [afterFinally EXCEPT
            !.fetches[k] = [f EXCEPT !.pc = "done"] @@ [outcome |-> outcome]]

\* the block under !loading && !error && item is rendered
Displayed(pg) == pg.mounted /\ ~pg.loading /\ ~Truthy(pg.error) /\ pg.item # Null

\* handlePractice up to its await, or to its return
handlePractice(pg) ==
    IF pg.item = Null THEN pg
    ELSE IF pg.practice # Null
    THEN [pg EXCEPT !.practice = Null,
                    !.practiceError = Null,
                    !.helpAnswers = NoAnswers,
                    !.helpLoading = NoLoading]
    ELSE [pg EXCEPT !.practiceLoading = TRUE,
                    !.practiceError = Null,
                    !.practiceCall = "pending",
                    !.sent = @ + 1]

\* handlePractice from its await on
handlePracticeResume(pg, outcome) ==
    LET afterTry ==
            IF outcome.kind = "ok"
            THEN [pg EXCEPT !.practice = [exercises |-> outcome.exercises],
                            !.helpAnswers = NoAnswers,
                            !.helpLoading = NoLoading]
            ELSE [pg EXCEPT !.practiceError = JString(outcome.message)]
    IN  [afterTry EXCEPT !.practiceLoading = FALSE, !.practiceCall = "none"]

\* handleHelp sends a request
Sends(pg, index) ==
    ~(pg.item = Null \/ pg.helpLoading[index] \/ Truthy(pg.helpAnswers[index]))

\* handleHelp up to its await, or to its return
handleHelp(pg, index) ==
    IF ~Sends(pg, index) THEN pg
    ELSE [pg EXCEPT !.helpLoading[index] = TRUE,
                    !.helps = Append(@, index),
                    !.sent = @ + 1]

\* handleHelp from its await on; k is the place of the call among those in flight
handleHelpResume(pg, k, outcome) ==
    LET index == pg.helps[k]
        answer ==
            IF outcome.kind = "ok"
            THEN IF outcome.answer = JNull
                 THEN JString("Could not generate an answer.")
                 ELSE outcome.answer
            ELSE JString("Something went wrong. Please try again.")
    IN  [pg EXCEPT !.helpAnswers[index] = answer,
                   !.helpLoading[index] = FALSE,
                   !.helps = SubSeq(@, 1, k - 1) \o SubSeq(@, k + 1, Len(@))]

\* the help button of exercise i
helpButton(pg, i) ==
    [ disabled |-> pg.helpLoading[i] \/ Truthy(pg.helpAnswers[i]),
      label |-> IF pg.helpLoading[i] THEN "Thinking"
                ELSE IF Truthy(pg.helpAnswers[i]) THEN "Answered"
                ELSE "Help me" ]

\* the page is opened
Mount(id) ==
    /\ page = Unmounted
    /\ page' = Mounted(id)
    /\ UNCHANGED <<deploy, now, ticks, rssCache, redditCache, req, probe>>

\* the page goes to another article
ChangeId(id) ==
    /\ page.mounted
    /\ id # page.id
    /\ page.sent < MaxRequests
    /\ page' = [useEffect(page, id) EXCEPT !.last = Null]
    /\ UNCHANGED <<deploy, now, ticks, rssCache, redditCache, req, probe>>

\* the page is left: the cleanup of the effect
Unmount ==
    /\ page.mounted
    /\ page' = [page EXCEPT !.mounted = FALSE,
                            !.fetches = [@ EXCEPT ![Len(@)].cancelled = TRUE],
                            !.last = Null]
    /\ UNCHANGED <<deploy, now, ticks, rssCache, redditCache, req, probe>>

\* the request of one fetchArticle ends
ArticleSettles(k) ==
    /\ k \in 1..Len(page.fetches)
    /\ page.fetches[k].pc = "pending"
    /\ \E outcome \in ArticleOutcomes :
          page' = [fetchArticleResume(page, k, outcome) EXCEPT !.last = Null]
    /\ UNCHANGED <<deploy, now, ticks, rssCache, redditCache, req, probe>>

\* the Practice button is pressed
HandlePractice ==
    /\ Displayed(page)
    /\ ~page.practiceLoading
    /\ page.practice = Null => page.sent < MaxRequests
    /\ page' = [handlePractice(page) EXCEPT !.last = Null]
    /\ UNCHANGED <<deploy, now, ticks, rssCache, redditCache, req, probe>>

\* the practice request ends; a component that is gone keeps no state
PracticeSettles ==
    /\ page # Unmounted
    /\ page.practiceCall = "pending"
    /\ \E outcome \in PracticeOutcomes :
          page' = IF page.mounted
                  THEN [handlePracticeResume(page, outcome) EXCEPT !.last = Null]
                  ELSE [page EXCEPT !.practiceCall = "none"]
    /\ UNCHANGED <<deploy, now, ticks, rssCache, redditCache, req, probe>>

\* handleHelp is called for a rendered exercise
HandleHelp(i) ==
    /\ Displayed(page)
    /\ page.practice # Null
    /\ i + 1 \in 1..Len(page.practice.exercises)
    /\ Sends(page, i) => page.sent < MaxRequests
    /\ page' = [handleHelp(page, i) EXCEPT
                   !.last = [index |-> i, sent |-> Sends(page, i)]]
    /\ UNCHANGED <<deploy, now, ticks, rssCache, redditCache, req, probe>>

\* a help request ends
HelpSettles(k) ==
    /\ page # Unmounted
    /\ k \in 1..Len(page.helps)
    /\ \E outcome \in HelpOutcomes :
          page' = IF page.mounted
                  THEN [handleHelpResume(page, k, outcome) EXCEPT !.last = Null]
                  ELSE [page EXCEPT
                           !.helps = SubSeq(@, 1, k - 1) \o SubSeq(@, k + 1, Len(@))]
    /\ UNCHANGED <<deploy, now, ticks, rssCache, redditCache, req, probe>>

NextPage ==
    \/ \E id \in ArticleIds : Mount(id)
    \/ \E id \in ArticleIds : ChangeId(id)
    \/ Unmount
    \/ \E k \in 1..MaxRequests : ArticleSettles(k)
    \/ HandlePractice
    \/ PracticeSettles
    \/ \E i \in ExerciseIndexes : HandleHelp(i)
    \/ \E k \in 1..MaxRequests : HelpSettles(k)

InitPage == Init /\ deploy.slots = 1

SpecPage == InitPage /\ [][NextPage]_vars

(***************************************************************************)
(* C27.  On the article page a fetch whose id is no longer the current one *)
(* or whose page is gone changes none of item, error and loading when it   *)
(* ends; and, in whatever order overlapping fetches end, the page shows    *)
(* what the fetch started for the current id calls for: the spinner and    *)
(* nothing else while it is pending, then its error, or the item of the    *)
(* current id from its list, or "Article not found".                       *)
(***************************************************************************)
\* fetch k ends in this step
Settles(k) ==
    /\ k \in 1..Len(page.fetches)
    /\ page.fetches[k].pc = "pending"
    /\ page'.fetches[k].pc = "done"

\* fetch k was started for an id the page has left, or the page is gone
Stale(k) == ~page.mounted \/ k # Len(page.fetches)

PageState(pg) == <<pg.item, pg.error, pg.loading>>

\* the article on the screen
ShownItem(pg) == IF Displayed(pg) THEN pg.item ELSE Null

\* the screen is the one of the fetch started for the current id
ShowsCurrent(pg) ==
    LET f == pg.fetches[Len(pg.fetches)]
    IN  /\ f.id = pg.id
        /\ IF f.pc = "pending"
           THEN pg.loading /\ pg.error = Null /\ ShownItem(pg) = Null
           ELSE /\ ~pg.loading
                /\ IF f.outcome.kind # "ok"
                   THEN pg.error = JString(f.outcome.message) /\ ShownItem(pg) = Null
                   ELSE IF \E i \in 1..Len(f.outcome.items) : f.outcome.items[i].id = pg.id
                   THEN /\ pg.error = Null
                        /\ ShownItem(pg).id = pg.id
                        /\ \E i \in 1..Len(f.outcome.items) : f.outcome.items[i] = ShownItem(pg)
                   ELSE pg.error = JString("Article not found") /\ ShownItem(pg) = Null

C27_StaleFetchChangesNothing ==
    [][ /\ \A k \in 1..MaxRequests :
              (Settles(k) /\ Stale(k)) => PageState(page') = PageState(page)
        /\ page'.mounted => ShowsCurrent(page') ]_vars

\* three fetches for a, b and a again or b, a and b: the first two ended with
\* a list holding their article after the page had left their id, for no item
\* is stored, and the page shows the error of the third
C27_Witness ==
    /\ page.mounted
    /\ Len(page.fetches) = 3
    /\ \A k \in 1..2 :
          /\ page.fetches[k].pc = "done"
          /\ page.fetches[k].outcome = [kind |-> "ok", items |-> <<ItemA, ItemB>>]
    /\ page.fetches[3].pc = "done"
    /\ page.item = Null
    /\ page.error = JString("HTTP 500")

(***************************************************************************)
(* C28.  As stated: a call of handleHelp for an exercise sends a request   *)
(* to /api/help unless a request for that exercise is in flight or a real  *)
(* answer was received for it; in particular it sends one when the page    *)
(* shows "Something went wrong. Please try again." for the exercise.       *)
(***************************************************************************)
\* the text handleHelp stores when the request failed
FailureText == JString("Something went wrong. Please try again.")

\* an answer that came with a response
RealAnswer(value) == Truthy(value) /\ value # FailureText

\* handleHelp is called for exercise i in this step
CallsHelp(i) ==
    /\ page' # Unmounted
    /\ page'.last # Null
    /\ page'.last.index = i
    /\ page' # page

C28_AsStated ==
    [][ \A i \in ExerciseIndexes :
            CallsHelp(i) =>
                (page'.last.sent <=>
                    ~(page.helpLoading[i] \/ RealAnswer(page.helpAnswers[i]))) ]_vars

====
